---- MODULE Spec2Model ----
(***************************************************************************)
(* Adjacency-list graph store of grafo-monitoria (create_graph, add_edge,  *)
(* remove_edge, get_degree, get_edges) and its traversals, modelled from   *)
(* the hardened C version (src/unnamed/part_001).                          *)
(*                                                                         *)
(* A Graph is num_vertices, directed and adj: adj[v] is the sequence       *)
(* g->adj[v][0 .. g->adj_size[v]-1], so Len(adj[v]) is g->adj_size[v].     *)
(* Vertices are 0 .. num_vertices-1 as in the C code.                      *)
(***************************************************************************)
EXTENDS Integers, Sequences, FiniteSets, TLC

VARIABLES
    num_vertices,   \* g->num_vertices
    directed,       \* g->directed
    adj,            \* g->adj / g->adj_size
    call,           \* the last call made on the graph and what it returned
    out,            \* what the last query (get_degree, get_edges, bfs) returned
    roundtrip,      \* an add_edge and the remove_edge of the same pair right after it
    history         \* the add_edge calls of the ring scenario, in order

vars == <<num_vertices, directed, adj, call, out, roundtrip, history>>

(* ---- bounds of the model ---- *)
MaxVertices == 3
MaxSize == 6
ScenarioVertices == 4
ScenarioEdges == 4

(* ---- return codes of add_edge / remove_edge ---- *)
OK == 0
ERR_INVALID == 0 - 2
ERR_NOT_FOUND == 0 - 3
ERR_REALLOC == 0 - 4

(* ---- small sequence helpers standing for the C array loops ---- *)

\* Index of the first i with s[i] = x, 0 when there is none
\* (the scan "for (i = 0; i < adj_size; i++) if (adj[i] == x) ... break").
FirstIndex(s, x) ==
    IF \E i \in 1..Len(s) : s[i] = x
    THEN CHOOSE i \in 1..Len(s) : s[i] = x /\ \A j \in 1..(i - 1) : s[j] # x
    ELSE 0

\* Index of the last i with s[i] = x, 0 when there is none.
LastIndex(s, x) ==
    IF \E i \in 1..Len(s) : s[i] = x
    THEN CHOOSE i \in 1..Len(s) : s[i] = x /\ \A j \in (i + 1)..Len(s) : s[j] # x
    ELSE 0

\* The shift loop "for (j = i; j + 1 < size; j++) a[j] = a[j+1]; size--".
RemoveAt(s, i) == SubSeq(s, 1, i - 1) \o SubSeq(s, i + 1, Len(s))

Count(s, x) == Cardinality({i \in 1..Len(s) : s[i] = x})

Vertices == 0..(num_vertices - 1)

RECURSIVE SumLen(_, _)
SumLen(A, S) ==
    IF S = {} THEN 0
    ELSE LET v == CHOOSE x \in S : TRUE IN Len(A[v]) + SumLen(A, S \ {v})

TotalEntries(A) == SumLen(A, DOMAIN A)

\* Number of add_edge calls the graph currently holds.
EdgeCount(A, dir) == IF dir THEN TotalEntries(A) ELSE TotalEntries(A) \div 2

(* ---- create_graph ---- *)
create_graph(n, dir) ==
    [num_vertices |-> n, directed |-> dir, adj |-> [v \in 0..(n - 1) |-> <<>>]]

(* ---- add_edge ---- *)
\* Mutant: the range check forgets dest.
add_edge_no_dest_check(A, n, dir, src, dest, oom1, oom2) ==
    IF src >= n THEN [adj |-> A, ret |-> ERR_INVALID]
    ELSE IF oom1 THEN [adj |-> A, ret |-> ERR_REALLOC]
    ELSE LET A1 == [A EXCEPT ![src] = Append(@, dest)] IN
         IF dir \/ dest >= n THEN [adj |-> A1, ret |-> OK]
         ELSE IF oom2
              THEN [adj |-> [A1 EXCEPT ![src] = SubSeq(@, 1, Len(@) - 1)],
                    ret |-> ERR_REALLOC]
              ELSE [adj |-> [A1 EXCEPT ![dest] = Append(@, src)], ret |-> OK]

\* Mutant: the mirrored insertion is skipped for a self-loop.
add_edge_no_self_mirror(A, n, dir, src, dest, oom1, oom2) ==
    IF src >= n \/ dest >= n THEN [adj |-> A, ret |-> ERR_INVALID]
    ELSE IF oom1 THEN [adj |-> A, ret |-> ERR_REALLOC]
    ELSE LET A1 == [A EXCEPT ![src] = Append(@, dest)] IN
         IF dir \/ src = dest THEN [adj |-> A1, ret |-> OK]
         ELSE IF oom2
              THEN [adj |-> [A1 EXCEPT ![src] = SubSeq(@, 1, Len(@) - 1)],
                    ret |-> ERR_REALLOC]
              ELSE [adj |-> [A1 EXCEPT ![dest] = Append(@, src)], ret |-> OK]

\* Mutant: the rollback "adj_size[src]--" is missing.
add_edge_no_rollback(A, n, dir, src, dest, oom1, oom2) ==
    IF src >= n \/ dest >= n THEN [adj |-> A, ret |-> ERR_INVALID]
    ELSE IF oom1 THEN [adj |-> A, ret |-> ERR_REALLOC]
    ELSE LET A1 == [A EXCEPT ![src] = Append(@, dest)] IN
         IF dir THEN [adj |-> A1, ret |-> OK]
         ELSE IF oom2
              THEN [adj |-> A1, ret |-> ERR_REALLOC]
              ELSE [adj |-> [A1 EXCEPT ![dest] = Append(@, src)], ret |-> OK]

\* oom1 / oom2: the first / second safe_realloc returns NULL.
\* _checa_overflow(adj_size + 1, sizeof(size_t)) is false for every list
\* length the model reaches, so its -3 branches are not taken.
add_edge(A, n, dir, src, dest, oom1, oom2) ==
    IF src >= n \/ dest >= n THEN [adj |-> A, ret |-> ERR_INVALID]
    ELSE IF oom1 THEN [adj |-> A, ret |-> ERR_REALLOC]
    ELSE LET A1 == [A EXCEPT ![src] = Append(@, dest)] IN
         IF dir THEN [adj |-> A1, ret |-> OK]
         ELSE IF oom2
              THEN [adj |-> [A1 EXCEPT ![src] = SubSeq(@, 1, Len(@) - 1)],
                    ret |-> ERR_REALLOC]
              ELSE [adj |-> [A1 EXCEPT ![dest] = Append(@, src)], ret |-> OK]

(* ---- remove_edge ---- *)
\* Mutant: the mirrored removal of an undirected graph is missing.
remove_edge_no_mirror(A, n, dir, src, dest) ==
    IF src >= n \/ dest >= n THEN [adj |-> A, ret |-> ERR_INVALID, warn |-> FALSE]
    ELSE LET i == FirstIndex(A[src], dest) IN
         IF i = 0 THEN [adj |-> A, ret |-> ERR_NOT_FOUND, warn |-> FALSE]
         ELSE [adj |-> [A EXCEPT ![src] = RemoveAt(@, i)], ret |-> OK, warn |-> FALSE]

\* Mutant: the scans stop at the last occurrence instead of the first.
remove_edge_last(A, n, dir, src, dest) ==
    IF src >= n \/ dest >= n THEN [adj |-> A, ret |-> ERR_INVALID, warn |-> FALSE]
    ELSE LET i == LastIndex(A[src], dest) IN
         IF i = 0 THEN [adj |-> A, ret |-> ERR_NOT_FOUND, warn |-> FALSE]
         ELSE LET A1 == [A EXCEPT ![src] = RemoveAt(@, i)] IN
              IF dir THEN [adj |-> A1, ret |-> OK, warn |-> FALSE]
              ELSE LET k == LastIndex(A1[dest], src) IN
                   IF k = 0 THEN [adj |-> A1, ret |-> OK, warn |-> TRUE]
                   ELSE [adj |-> [A1 EXCEPT ![dest] = RemoveAt(@, k)],
                         ret |-> OK, warn |-> FALSE]

\* Mutant: the first scan looks for src in dest's list (arguments swapped).
remove_edge_swapped(A, n, dir, src, dest) ==
    IF src >= n \/ dest >= n THEN [adj |-> A, ret |-> ERR_INVALID, warn |-> FALSE]
    ELSE LET i == FirstIndex(A[dest], src) IN
         IF i = 0 THEN [adj |-> A, ret |-> ERR_NOT_FOUND, warn |-> FALSE]
         ELSE LET A1 == [A EXCEPT ![dest] = RemoveAt(@, i)] IN
              IF dir THEN [adj |-> A1, ret |-> OK, warn |-> FALSE]
              ELSE LET k == FirstIndex(A1[src], dest) IN
                   IF k = 0 THEN [adj |-> A1, ret |-> OK, warn |-> TRUE]
                   ELSE [adj |-> [A1 EXCEPT ![src] = RemoveAt(@, k)],
                         ret |-> OK, warn |-> FALSE]

\* warn: the [AVISO] branch (src side removed, mirrored side not found).
remove_edge(A, n, dir, src, dest) ==
    IF src >= n \/ dest >= n THEN [adj |-> A, ret |-> ERR_INVALID, warn |-> FALSE]
    ELSE LET i == FirstIndex(A[src], dest) IN
         IF i = 0 THEN [adj |-> A, ret |-> ERR_NOT_FOUND, warn |-> FALSE]
         ELSE LET A1 == [A EXCEPT ![src] = RemoveAt(@, i)] IN
              IF dir THEN [adj |-> A1, ret |-> OK, warn |-> FALSE]
              ELSE LET k == FirstIndex(A1[dest], src) IN
                   IF k = 0 THEN [adj |-> A1, ret |-> OK, warn |-> TRUE]
                   ELSE [adj |-> [A1 EXCEPT ![dest] = RemoveAt(@, k)],
                         ret |-> OK, warn |-> FALSE]

(* ---- get_degree ---- *)
\* The error value SIZE_MAX, (size_t)-1, is written 0 - 1.
get_degree(A, n, vertex) == IF vertex >= n THEN 0 - 1 ELSE Len(A[vertex])

(* ---- get_edges ---- *)
\* Mutant: the row stride is forgotten.
edge_key_no_stride(min, max, n) == min + max

\* "size_t index = (size_t)min * g->num_vertices + (size_t)max".
edge_key(min, max, n) == min * n + max

\* e = [edges, processed, err]: the edges array filled so far (*num_edges is
\* Len(e.edges)), the set of indices with processed[index] = true, and
\* whether the "Capacidade de arestas excedida" branch returned NULL.
\* The scan is at vertex v, list position i (1-based).
RECURSIVE get_edges_scan(_, _, _, _, _, _)
get_edges_scan(A, n, dir, v, i, e) ==
    IF e.err \/ v >= n THEN e
    ELSE IF i > Len(A[v]) THEN get_edges_scan(A, n, dir, v + 1, 1, e)
    ELSE LET w == A[v][i]
             capacity == n * n
             min == IF v < w THEN v ELSE w
             max == IF v < w THEN w ELSE v
             index == edge_key(min, max, n)
         IN
         IF w >= n THEN get_edges_scan(A, n, dir, v, i + 1, e)
         ELSE IF dir
         THEN IF Len(e.edges) >= capacity
              THEN [e EXCEPT !.err = TRUE, !.edges = <<>>]
              ELSE get_edges_scan(A, n, dir, v, i + 1,
                       [e EXCEPT !.edges = Append(@, [v1 |-> v, v2 |-> w])])
         ELSE IF index >= capacity THEN get_edges_scan(A, n, dir, v, i + 1, e)
         ELSE IF index \notin e.processed
         THEN IF Len(e.edges) >= capacity
              THEN [e EXCEPT !.err = TRUE, !.edges = <<>>]
              ELSE get_edges_scan(A, n, dir, v, i + 1,
                       [e EXCEPT !.edges = Append(@, [v1 |-> min, v2 |-> max]),
                                 !.processed = @ \cup {index}])
         ELSE get_edges_scan(A, n, dir, v, i + 1, e)

\* null: the function returns NULL (capacity exceeded, or no edge found).
get_edges(A, n, dir) ==
    LET e == get_edges_scan(A, n, dir, 0, 1,
                 [edges |-> <<>>, processed |-> {}, err |-> FALSE])
    IN [kind |-> "get_edges", edges |-> e.edges, num_edges |-> Len(e.edges),
        null |-> (e.err \/ e.edges = <<>>), err |-> e.err]

(* ---- bfs ---- *)
\* st = [visited, queue, result]: visited[] as a set, queue[0..rear-1] as a
\* sequence (rear = Len(st.queue)), result[0..count-1] as a sequence
\* (count = Len(st.result)); slots of result past count are never written.

\* "if (!visited[neigh]) { visited[neigh] = true; queue[rear++] = neigh; }"
bfs_visit(st, neigh) ==
    IF neigh \notin st.visited
    THEN [st EXCEPT !.visited = @ \cup {neigh}, !.queue = Append(@, neigh)]
    ELSE st

RECURSIVE bfs_neighbors(_, _, _, _, _)
bfs_neighbors(A, n, v, i, st) ==
    IF i > Len(A[v]) THEN st
    ELSE LET neigh == A[v][i] IN
         IF neigh >= n THEN bfs_neighbors(A, n, v, i + 1, st)
         ELSE bfs_neighbors(A, n, v, i + 1, bfs_visit(st, neigh))

\* The main loop "while (front < rear)"; front is 0-based as in the code.
RECURSIVE bfs_loop(_, _, _, _)
bfs_loop(A, n, front, st) ==
    IF ~(front < Len(st.queue)) THEN st
    ELSE LET v == st.queue[front + 1]
             st1 == [st EXCEPT !.result = Append(@, v)]
         IN bfs_loop(A, n, front + 1, bfs_neighbors(A, n, v, 1, st1))

\* Mutant: "visited[start] = true" is missing.
bfs_start_unmarked(A, n, start) ==
    IF start >= n
    THEN [kind |-> "bfs", null |-> TRUE, result |-> <<>>, count |-> 0, rear |-> 0]
    ELSE LET st == bfs_loop(A, n, 0,
                       [visited |-> {}, queue |-> <<start>>, result |-> <<>>])
         IN [kind |-> "bfs", null |-> FALSE, result |-> st.result,
             count |-> Len(st.result), rear |-> Len(st.queue)]

bfs(A, n, start) ==
    IF start >= n
    THEN [kind |-> "bfs", null |-> TRUE, result |-> <<>>, count |-> 0, rear |-> 0]
    ELSE LET st == bfs_loop(A, n, 0,
                       [visited |-> {start}, queue |-> <<start>>, result |-> <<>>])
         IN [kind |-> "bfs", null |-> FALSE, result |-> st.result,
             count |-> Len(st.result), rear |-> Len(st.queue)]

(* ---- dfs ---- *)
\* The explicit stack is stack[0..top] with "size_t top": top is written as
\* Len(st.stack) - 1, and the value SIZE_MAX that "size_t top = -1" and
\* "top--" on 0 produce is written 0 - 1.
\* "while (top >= 0)" compares an unsigned value with 0: it holds for every
\* top, SIZE_MAX included.
dfs_loop_test(top) == TRUE

\* st = [visited, stack, path, max_stack, overflow, pop_empty].
\* The inner loop over adj[v]: "if (!visited[neigh]) stack[++top] = neigh".
\* stack has room for n entries; a push at index n writes past the buffer
\* (overflow), after which the run has no defined behaviour.
RECURSIVE dfs_push_neighbors(_, _, _, _, _)
dfs_push_neighbors(A, n, v, i, st) ==
    IF i > Len(A[v]) THEN st
    ELSE LET neigh == A[v][i] IN
         IF neigh >= n THEN dfs_push_neighbors(A, n, v, i + 1, st)
         ELSE IF neigh \notin st.visited
         THEN LET stack1 == Append(st.stack, neigh) IN
              dfs_push_neighbors(A, n, v, i + 1,
                  [st EXCEPT !.stack = stack1,
                             !.max_stack = IF Len(stack1) > @ THEN Len(stack1) ELSE @,
                             !.overflow = @ \/ Len(stack1) > n])
         ELSE dfs_push_neighbors(A, n, v, i + 1, st)

\* The main loop.  With the stack empty top is SIZE_MAX, the loop test still
\* holds and "stack[top--]" reads stack[SIZE_MAX]: pop_empty, after which
\* the run has no defined behaviour and the model stops following it.
RECURSIVE dfs_loop(_, _, _)
dfs_loop(A, n, st) ==
    LET top == Len(st.stack) - 1 IN
    IF ~dfs_loop_test(top) THEN st
    ELSE IF top = 0 - 1 THEN [st EXCEPT !.pop_empty = TRUE]
    ELSE LET v == st.stack[top + 1]
             st1 == [st EXCEPT !.stack = SubSeq(@, 1, top)]
         IN
         IF v >= n THEN dfs_loop(A, n, st1)
         ELSE IF v \notin st1.visited
         THEN dfs_loop(A, n,
                  dfs_push_neighbors(A, n, v, 1,
                      [st1 EXCEPT !.visited = @ \cup {v},
                                  !.path = Append(@, v)]))
         ELSE dfs_loop(A, n, st1)

\* path[0..count-1] as written by the loop; undefined: the run left defined
\* behaviour (a pop from the empty stack or a push past the buffer).
dfs(A, n, start) ==
    IF start >= n
    THEN [kind |-> "dfs", null |-> TRUE, path |-> <<>>, count |-> 0,
          max_stack |-> 0, overflow |-> FALSE, pop_empty |-> FALSE,
          undefined |-> FALSE]
    ELSE LET st == dfs_loop(A, n,
                       [visited |-> {}, stack |-> <<start>>, path |-> <<>>,
                        max_stack |-> 1, overflow |-> FALSE, pop_empty |-> FALSE])
         IN [kind |-> "dfs", null |-> FALSE, path |-> st.path,
             count |-> Len(st.path), max_stack |-> st.max_stack,
             overflow |-> st.overflow, pop_empty |-> st.pop_empty,
             undefined |-> (st.overflow \/ st.pop_empty)]

(* ---- has_cycle ---- *)
\* Mutant: a visited neighbour counts as a cycle even when it is the parent.
has_cycle_back_edge_any(v, parent) == TRUE

\* "else if ((size_t)v != parent)": a visited neighbour that is not the parent.
has_cycle_back_edge(v, parent) == v # parent

\* The "no parent" sentinel SIZE_MAX, written 0 - 1.
NO_PARENT == 0 - 1

\* has_cycle_util from position i of adj[u]; r = [visited, found].
RECURSIVE has_cycle_util(_, _, _, _, _, _)
has_cycle_util(A, n, u, parent, i, r) ==
    IF i > Len(A[u]) THEN [r EXCEPT !.found = FALSE]
    ELSE LET v == A[u][i] IN
         IF v >= n THEN has_cycle_util(A, n, u, parent, i + 1, r)
         ELSE IF v \notin r.visited
         THEN LET sub == has_cycle_util(A, n, v, u, 1,
                             [r EXCEPT !.visited = @ \cup {v}])
              IN IF sub.found THEN sub
                 ELSE has_cycle_util(A, n, u, parent, i + 1, sub)
         ELSE IF has_cycle_back_edge(v, parent)
         THEN [r EXCEPT !.found = TRUE]
         ELSE has_cycle_util(A, n, u, parent, i + 1, r)

\* The loop "for (v = 0; v < num_vertices; v++) if (!visited[v]) ...".
RECURSIVE has_cycle_from(_, _, _, _)
has_cycle_from(A, n, v, visited) ==
    IF v >= n THEN FALSE
    ELSE IF v \notin visited
    THEN LET r == has_cycle_util(A, n, v, NO_PARENT, 1,
                      [visited |-> visited \cup {v}, found |-> FALSE])
         IN IF r.found THEN TRUE ELSE has_cycle_from(A, n, v + 1, r.visited)
    ELSE has_cycle_from(A, n, v + 1, visited)

has_cycle(A, n) == has_cycle_from(A, n, 0, {})

(* ---- shortest paths (unit weights) ---- *)
\* The "unreachable" distance, and the "no predecessor" sentinel SIZE_MAX
\* written 0 - 1.  Allocation failures are left out of these routines.
INT_MAX == 2147483647

NO_PRED == 0 - 1

NoPath == [dist |-> INT_MAX, path |-> <<>>, len |-> 0, null |-> TRUE]

\* The two loops that rebuild the path from prev[]: target back to source.
RECURSIVE prev_path(_, _, _)
prev_path(prev, source, v) ==
    IF v = source THEN <<source>>
    ELSE Append(prev_path(prev, source, prev[v]), v)

\* Mutant: the source starts at distance 1.
dijkstra_init_one(n, source) ==
    [v \in 0..(n - 1) |-> IF v = source THEN 1 ELSE INT_MAX]

\* "dist[i] = INT_MAX" for every i, then "dist[source] = 0".
dijkstra_init(n, source) ==
    [v \in 0..(n - 1) |-> IF v = source THEN 0 ELSE INT_MAX]

\* The scan "if (!visited[v] && dist[v] < min_dist)": the lowest-numbered
\* unvisited vertex of minimum finite distance, n when there is none.
dijkstra_select(dist, visited, n) ==
    LET S == {v \in 0..(n - 1) : v \notin visited /\ dist[v] < INT_MAX}
    IN IF S = {} THEN n
       ELSE CHOOSE v \in S : \A w \in S : dist[v] < dist[w] \/ (dist[v] = dist[w] /\ v <= w)

\* st = [dist, visited, prev]; the relaxation loop over adj[u].
RECURSIVE dijkstra_relax(_, _, _, _, _)
dijkstra_relax(A, n, u, i, st) ==
    IF i > Len(A[u]) THEN st
    ELSE LET v == A[u][i] IN
         IF v >= n THEN dijkstra_relax(A, n, u, i + 1, st)
         ELSE IF v \notin st.visited /\ st.dist[u] # INT_MAX /\ st.dist[u] + 1 < st.dist[v]
         THEN dijkstra_relax(A, n, u, i + 1,
                  [st EXCEPT !.dist[v] = st.dist[u] + 1, !.prev[v] = u])
         ELSE dijkstra_relax(A, n, u, i + 1, st)

RECURSIVE dijkstra_loop(_, _, _, _, _)
dijkstra_loop(A, n, target, count, st) ==
    IF count >= n THEN st
    ELSE LET u == dijkstra_select(st.dist, st.visited, n) IN
         IF u = n THEN st
         ELSE LET st1 == [st EXCEPT !.visited = @ \cup {u}] IN
              IF u = target THEN st1
              ELSE dijkstra_loop(A, n, target, count + 1,
                                 dijkstra_relax(A, n, u, 1, st1))

\* dijkstra_shortest_path with a path requested.
dijkstra_shortest_path(A, n, source, target) ==
    IF source >= n \/ target >= n THEN NoPath
    ELSE LET st == dijkstra_loop(A, n, target, 0,
                       [dist |-> dijkstra_init(n, source),
                        visited |-> {},
                        prev |-> [v \in 0..(n - 1) |-> NO_PRED]])
         IN IF st.dist[target] # INT_MAX
            THEN LET path == prev_path(st.prev, source, target)
                 IN [dist |-> st.dist[target], path |-> path,
                     len |-> Len(path), null |-> FALSE]
            ELSE [dist |-> st.dist[target], path |-> <<>>, len |-> 0, null |-> TRUE]

\* st = [dist, prev, updated]; one sweep of Bellman-Ford from entry k of adj[u].
RECURSIVE bellman_ford_sweep(_, _, _, _, _)
bellman_ford_sweep(A, n, u, k, st) ==
    IF u >= n THEN st
    ELSE IF st.dist[u] = INT_MAX \/ k > Len(A[u])
    THEN bellman_ford_sweep(A, n, u + 1, 1, st)
    ELSE LET v == A[u][k] IN
         IF v < n /\ st.dist[u] + 1 < st.dist[v]
         THEN bellman_ford_sweep(A, n, u, k + 1,
                  [st EXCEPT !.dist[v] = st.dist[u] + 1, !.prev[v] = u,
                             !.updated = TRUE])
         ELSE bellman_ford_sweep(A, n, u, k + 1, st)

\* "for (iter = 0; iter < n - 1; iter++)" with the early exit "if (!updated)".
RECURSIVE bellman_ford_loop(_, _, _, _)
bellman_ford_loop(A, n, iter, st) ==
    IF iter >= n - 1 THEN st
    ELSE LET st1 == bellman_ford_sweep(A, n, 0, 1, [st EXCEPT !.updated = FALSE])
         IN IF ~st1.updated THEN st1
            ELSE bellman_ford_loop(A, n, iter + 1, st1)

\* bellman_ford_shortest_path with a path requested.
bellman_ford_shortest_path(A, n, source, target) ==
    IF source >= n \/ target >= n THEN NoPath
    ELSE LET st == bellman_ford_loop(A, n, 0,
                       [dist |-> [v \in 0..(n - 1) |-> IF v = source THEN 0 ELSE INT_MAX],
                        prev |-> [v \in 0..(n - 1) |-> NO_PRED],
                        updated |-> FALSE])
         IN IF st.dist[target] # INT_MAX
            THEN LET path == prev_path(st.prev, source, target)
                 IN [dist |-> st.dist[target], path |-> path,
                     len |-> Len(path), null |-> FALSE]
            ELSE [dist |-> st.dist[target], path |-> <<>>, len |-> 0, null |-> TRUE]

\* The initialisation of _floyd_warshall_all_pairs: row i gets 0 on the
\* diagonal and INT_MAX elsewhere, then every adjacency entry v of i,
\* v = i included, sets dist[i][v] = 1 and pred[i][v] = i.
floyd_init(A, n) ==
    LET N == 0..(n - 1)
        adjacent(i, j) == \E k \in 1..Len(A[i]) : A[i][k] = j
    IN [dist |-> [i \in N |-> [j \in N |->
                     IF adjacent(i, j) THEN 1 ELSE IF i = j THEN 0 ELSE INT_MAX]],
        pred |-> [i \in N |-> [j \in N |->
                     IF adjacent(i, j) THEN i ELSE NO_PRED]]]

\* The triple loop k, i, j, updating dist and pred in place: the j loop,
\* the i loop around it and the k loop around both.
RECURSIVE floyd_loop_j(_, _, _, _, _)
floyd_loop_j(n, k, i, j, d) ==
    IF j >= n THEN d
    ELSE IF d.dist[k][j] = INT_MAX \/ d.dist[i][k] > INT_MAX - d.dist[k][j]
    THEN floyd_loop_j(n, k, i, j + 1, d)
    ELSE LET alt == d.dist[i][k] + d.dist[k][j] IN
         IF alt < d.dist[i][j]
         THEN floyd_loop_j(n, k, i, j + 1,
                  [d EXCEPT !.dist[i][j] = alt, !.pred[i][j] = d.pred[k][j]])
         ELSE floyd_loop_j(n, k, i, j + 1, d)

RECURSIVE floyd_loop_i(_, _, _, _)
floyd_loop_i(n, k, i, d) ==
    IF i >= n THEN d
    ELSE IF d.dist[i][k] = INT_MAX THEN floyd_loop_i(n, k, i + 1, d)
    ELSE floyd_loop_i(n, k, i + 1, floyd_loop_j(n, k, i, 0, d))

RECURSIVE floyd_loop(_, _, _)
floyd_loop(n, k, d) ==
    IF k >= n THEN d
    ELSE floyd_loop(n, k + 1, floyd_loop_i(n, k, 0, d))

_floyd_warshall_all_pairs(A, n) == floyd_loop(n, 0, floyd_init(A, n))

\* The walk "while (v != source)" of _reconstruct_floyd_path; tmp holds the
\* vertices from target backwards, failed when the walk gives up.
RECURSIVE floyd_walk(_, _, _, _, _)
floyd_walk(d, n, source, v, tmp) ==
    IF v = source THEN [tmp |-> Append(tmp, source), failed |-> FALSE]
    ELSE IF Len(tmp) >= n \/ d.pred[source][v] = NO_PRED
    THEN [tmp |-> tmp, failed |-> TRUE]
    ELSE floyd_walk(d, n, source, d.pred[source][v], Append(tmp, v))

_reconstruct_floyd_path(d, n, source, target) ==
    IF d.dist[source][target] = INT_MAX
    THEN [path |-> <<>>, len |-> 0, null |-> TRUE]
    ELSE LET w == floyd_walk(d, n, source, target, <<>>) IN
         IF w.failed THEN [path |-> <<>>, len |-> 0, null |-> TRUE]
         ELSE [path |-> [i \in 1..Len(w.tmp) |-> w.tmp[Len(w.tmp) + 1 - i]],
               len |-> Len(w.tmp), null |-> FALSE]

\* floyd_warshall_shortest_path with a path requested.
floyd_warshall_shortest_path(A, n, source, target) ==
    IF source >= n \/ target >= n THEN NoPath
    ELSE LET d == _floyd_warshall_all_pairs(A, n)
             p == _reconstruct_floyd_path(d, n, source, target)
         IN [dist |-> d.dist[source][target], path |-> p.path,
             len |-> p.len, null |-> p.null]

(* ---- kruskal_mst ---- *)
\* A DisjointSet is ds = [parent, rank].  ds_find compresses the path it
\* walks and returns the root: the result is [ds, root].
RECURSIVE ds_find(_, _)
ds_find(ds, x) ==
    IF ds.parent[x] # x
    THEN LET r == ds_find(ds, ds.parent[x])
         IN [ds |-> [r.ds EXCEPT !.parent[x] = r.root], root |-> r.root]
    ELSE [ds |-> ds, root |-> x]

\* Mutant: the union is forgotten.
ds_union_none(ds, x, y) == ds

ds_union(ds, x, y) ==
    LET fx == ds_find(ds, x)
        fy == ds_find(fx.ds, y)
        rx == fx.root
        ry == fy.root
        d == fy.ds
    IN IF rx = ry THEN d
       ELSE IF d.rank[rx] < d.rank[ry] THEN [d EXCEPT !.parent[rx] = ry]
       ELSE IF d.rank[rx] > d.rank[ry] THEN [d EXCEPT !.parent[ry] = rx]
       ELSE [d EXCEPT !.parent[ry] = rx, !.rank[rx] = @ + 1]

ds_create(n) == [parent |-> [i \in 0..(n - 1) |-> i], rank |-> [i \in 0..(n - 1) |-> 0]]

\* Step 1: one WeightedEdge (weight 1) per adjacency entry, in scan order;
\* on an undirected graph the entries with u > v are skipped.
RECURSIVE kruskal_edges(_, _, _, _, _)
kruskal_edges(A, n, dir, u, k) ==
    IF u >= n THEN <<>>
    ELSE IF k > Len(A[u]) THEN kruskal_edges(A, n, dir, u + 1, 1)
    ELSE LET v == A[u][k] IN
         IF ~dir /\ u > v THEN kruskal_edges(A, n, dir, u, k + 1)
         ELSE <<[v1 |-> u, v2 |-> v, weight |-> 1]>> \o kruskal_edges(A, n, dir, u, k + 1)

\* Step 2: qsort with edge_cmp.  All weights are equal and qsort is not
\* stable, so the sorted array is any arrangement of the entries.
RECURSIVE qsort(_)
qsort(edges) ==
    IF edges = <<>> THEN {<<>>}
    ELSE UNION {{<<edges[i]>> \o t : t \in qsort(RemoveAt(edges, i))} :
                i \in {j \in 1..Len(edges) : \A k \in 1..(j - 1) : edges[k] # edges[j]}}

\* Step 4: the loop "for (i = 0; i < nedges && mst_n < n - 1; i++)";
\* st = [ds, mst, total_weight].
RECURSIVE kruskal_loop(_, _, _, _)
kruskal_loop(edges, n, i, st) ==
    IF i > Len(edges) \/ Len(st.mst) >= n - 1 THEN st
    ELSE LET u == edges[i].v1
             v == edges[i].v2
             fu == ds_find(st.ds, u)
             fv == ds_find(fu.ds, v)
         IN IF fu.root # fv.root
            THEN kruskal_loop(edges, n, i + 1,
                     [ds |-> ds_union(fv.ds, u, v),
                      mst |-> Append(st.mst, edges[i]),
                      total_weight |-> st.total_weight + edges[i].weight])
            ELSE kruskal_loop(edges, n, i + 1, [st EXCEPT !.ds = fv.ds])

\* kruskal_mst on the sorted edge array, with the edges requested.
\* Allocation failures are left out.
kruskal_mst(n, sorted) ==
    LET st == kruskal_loop(sorted, n, 1,
                  [ds |-> ds_create(n), mst |-> <<>>, total_weight |-> 0])
    IN IF Len(st.mst) # n - 1
       THEN [kind |-> "kruskal", ret |-> 0 - 1, edges |-> <<>>, nedges |-> 0]
       ELSE [kind |-> "kruskal", ret |-> st.total_weight, edges |-> st.mst,
             nedges |-> Len(st.mst)]

(* ---- edmonds_karp_max_flow ---- *)
\* capacity and residual are n x n matrices, written [u -> [v -> int]].
\* st = [visited, parent, queue, found]; the scan of adj[u] in the BFS for
\* an augmenting path.  Only adjacency entries of u are followed.
RECURSIVE ek_scan(_, _, _, _, _, _)
ek_scan(A, residual, sink, u, k, st) ==
    IF k > Len(A[u]) THEN st
    ELSE LET v == A[u][k] IN
         IF v \notin st.visited /\ residual[u][v] > 0
         THEN LET st1 == [st EXCEPT !.parent[v] = u] IN
              IF v = sink THEN [st1 EXCEPT !.found = TRUE]
              ELSE ek_scan(A, residual, sink, u, k + 1,
                       [st1 EXCEPT !.queue = Append(@, v), !.visited = @ \cup {v}])
         ELSE ek_scan(A, residual, sink, u, k + 1, st)

\* "while (front < back)", front counted from 1.
RECURSIVE ek_bfs(_, _, _, _, _)
ek_bfs(A, residual, sink, front, st) ==
    IF front > Len(st.queue) THEN st
    ELSE LET st1 == ek_scan(A, residual, sink, st.queue[front], 1, st)
         IN IF st1.found THEN st1
            ELSE ek_bfs(A, residual, sink, front + 1, st1)

\* The bottleneck of the path sink, parent[sink], ..., source.
RECURSIVE ek_path_flow(_, _, _, _, _)
ek_path_flow(residual, parent, source, v, path_flow) ==
    IF v = source THEN path_flow
    ELSE LET u == parent[v] IN
         ek_path_flow(residual, parent, source, u,
             IF residual[u][v] < path_flow THEN residual[u][v] ELSE path_flow)

\* "residual[u][v] -= path_flow; residual[v][u] += path_flow" along the path.
RECURSIVE ek_update(_, _, _, _, _)
ek_update(residual, parent, source, v, path_flow) ==
    IF v = source THEN residual
    ELSE LET u == parent[v] IN
         ek_update([residual EXCEPT ![u][v] = @ - path_flow, ![v][u] = @ + path_flow],
                   parent, source, u, path_flow)

\* The loop "while (1)": one BFS and one augmentation per round.
RECURSIVE ek_loop(_, _, _, _, _, _)
ek_loop(A, n, source, sink, residual, max_flow) ==
    LET b == ek_bfs(A, residual, sink, 1,
                 [visited |-> {source}, parent |-> [i \in 0..(n - 1) |-> 0 - 1],
                  queue |-> <<source>>, found |-> FALSE])
    IN IF ~b.found THEN [ret |-> max_flow, residual |-> residual]
       ELSE LET path_flow == ek_path_flow(residual, b.parent, source, sink, INT_MAX)
                residual1 == ek_update(residual, b.parent, source, sink, path_flow)
            IN IF max_flow > INT_MAX - path_flow
               THEN [ret |-> 0 - 1, residual |-> residual1]
               ELSE ek_loop(A, n, source, sink, residual1, max_flow + path_flow)

\* ret is the returned value; residual is the matrix the loop ended with.
edmonds_karp_max_flow(A, n, capacity, source, sink) ==
    IF source >= n \/ sink >= n \/ source = sink
    THEN [ret |-> 0 - 1, residual |-> capacity]
    ELSE ek_loop(A, n, source, sink, capacity, 0)

(* ---- min_cut ---- *)
\* Step 1 of min_cut is its own copy of the Edmonds-Karp loop.
RECURSIVE min_cut_scan(_, _, _, _, _, _)
min_cut_scan(A, residual, sink, u, k, st) ==
    IF k > Len(A[u]) THEN st
    ELSE LET v == A[u][k] IN
         IF v \notin st.visited /\ residual[u][v] > 0
         THEN LET st1 == [st EXCEPT !.parent[v] = u] IN
              IF v = sink THEN [st1 EXCEPT !.found = TRUE]
              ELSE min_cut_scan(A, residual, sink, u, k + 1,
                       [st1 EXCEPT !.queue = Append(@, v), !.visited = @ \cup {v}])
         ELSE min_cut_scan(A, residual, sink, u, k + 1, st)

RECURSIVE min_cut_bfs(_, _, _, _, _)
min_cut_bfs(A, residual, sink, front, st) ==
    IF front > Len(st.queue) THEN st
    ELSE LET st1 == min_cut_scan(A, residual, sink, st.queue[front], 1, st)
         IN IF st1.found THEN st1
            ELSE min_cut_bfs(A, residual, sink, front + 1, st1)

RECURSIVE min_cut_path_flow(_, _, _, _, _)
min_cut_path_flow(residual, parent, source, v, path_flow) ==
    IF v = source THEN path_flow
    ELSE LET u == parent[v] IN
         min_cut_path_flow(residual, parent, source, u,
             IF residual[u][v] < path_flow THEN residual[u][v] ELSE path_flow)

RECURSIVE min_cut_update(_, _, _, _, _)
min_cut_update(residual, parent, source, v, path_flow) ==
    IF v = source THEN residual
    ELSE LET u == parent[v] IN
         min_cut_update([residual EXCEPT ![u][v] = @ - path_flow, ![v][u] = @ + path_flow],
                        parent, source, u, path_flow)

RECURSIVE min_cut_loop(_, _, _, _, _, _)
min_cut_loop(A, n, source, sink, residual, max_flow) ==
    LET b == min_cut_bfs(A, residual, sink, 1,
                 [visited |-> {source}, parent |-> [i \in 0..(n - 1) |-> 0 - 1],
                  queue |-> <<source>>, found |-> FALSE])
    IN IF ~b.found THEN [ret |-> max_flow, residual |-> residual]
       ELSE LET path_flow == min_cut_path_flow(residual, b.parent, source, sink, INT_MAX)
                residual1 == min_cut_update(residual, b.parent, source, sink, path_flow)
            IN IF max_flow > INT_MAX - path_flow
               THEN [ret |-> 0 - 1, residual |-> residual1]
               ELSE min_cut_loop(A, n, source, sink, residual1, max_flow + path_flow)

\* Step 2: the BFS that marks reachable[], again over adjacency entries
\* with positive residual; st = [reachable, queue].
RECURSIVE min_cut_reach_scan(_, _, _, _, _)
min_cut_reach_scan(A, residual, u, k, st) ==
    IF k > Len(A[u]) THEN st
    ELSE LET v == A[u][k] IN
         IF v \notin st.reachable /\ residual[u][v] > 0
         THEN min_cut_reach_scan(A, residual, u, k + 1,
                  [reachable |-> st.reachable \cup {v}, queue |-> Append(st.queue, v)])
         ELSE min_cut_reach_scan(A, residual, u, k + 1, st)

RECURSIVE min_cut_reach(_, _, _, _)
min_cut_reach(A, residual, front, st) ==
    IF front > Len(st.queue) THEN st
    ELSE min_cut_reach(A, residual, front + 1,
             min_cut_reach_scan(A, residual, st.queue[front], 1, st))

\* Step 3: one cut entry per adjacency entry (u, v) with u reachable, v not
\* and capacity[u][v] > 0, in scan order.
RECURSIVE min_cut_edges(_, _, _, _, _, _)
min_cut_edges(A, n, capacity, reachable, u, k) ==
    IF u >= n THEN <<>>
    ELSE IF u \notin reachable \/ k > Len(A[u])
    THEN min_cut_edges(A, n, capacity, reachable, u + 1, 1)
    ELSE LET v == A[u][k] IN
         IF v \notin reachable /\ capacity[u][v] > 0
         THEN <<[v1 |-> u, v2 |-> v]>> \o min_cut_edges(A, n, capacity, reachable, u, k + 1)
         ELSE min_cut_edges(A, n, capacity, reachable, u, k + 1)

\* cut has room for n * n entries; overflow: an entry was written past it,
\* after which the run has no defined behaviour.
min_cut(A, n, capacity, source, sink) ==
    IF source >= n \/ sink >= n \/ source = sink
    THEN [ret |-> 0 - 1, cut |-> <<>>, ncut |-> 0, null |-> TRUE,
          reachable |-> {}, residual |-> capacity, overflow |-> FALSE]
    ELSE LET f == min_cut_loop(A, n, source, sink, capacity, 0) IN
         IF f.ret = 0 - 1
         THEN [ret |-> 0 - 1, cut |-> <<>>, ncut |-> 0, null |-> TRUE,
               reachable |-> {}, residual |-> f.residual, overflow |-> FALSE]
         ELSE LET r == min_cut_reach(A, f.residual, 1,
                           [reachable |-> {source}, queue |-> <<source>>])
                  cut == min_cut_edges(A, n, capacity, r.reachable, 0, 1)
              IN [ret |-> f.ret, cut |-> cut, ncut |-> Len(cut), null |-> FALSE,
                  reachable |-> r.reachable, residual |-> f.residual,
                  overflow |-> (Len(cut) > n * n)]

(* ---- greedy_sequential_coloring ---- *)
\* color is [v -> int], -1 for "not coloured yet".
\* The colours marked in used[] by the scan of adj[v].
greedy_used(A, n, v, color) ==
    {color[A[v][i]] : i \in {j \in 1..Len(A[v]) : A[v][j] < n /\ color[A[v][j]] >= 0}}

\* Mutant: the search for a free colour gives up at once.
greedy_first_free_last(used, n, c) == n - 1

\* "for (c = 0; c < (int)n; c++) if (!used[c]) break;"
RECURSIVE greedy_first_free(_, _, _)
greedy_first_free(used, n, c) ==
    IF c < n /\ c \in used THEN greedy_first_free(used, n, c + 1) ELSE c

\* The loop over v = 0 .. n-1; st = [color, max_color].
RECURSIVE greedy_loop(_, _, _, _)
greedy_loop(A, n, v, st) ==
    IF v >= n THEN st
    ELSE LET c == greedy_first_free(greedy_used(A, n, v, st.color), n, 0)
         IN greedy_loop(A, n, v + 1,
                [color |-> [st.color EXCEPT ![v] = c],
                 max_color |-> IF c > st.max_color THEN c ELSE st.max_color])

\* Allocation failures are left out.
greedy_sequential_coloring(A, n) ==
    LET st == greedy_loop(A, n, 0,
                  [color |-> [v \in 0..(n - 1) |-> 0 - 1], max_color |-> 0 - 1])
    IN [kind |-> "coloring", color |-> st.color, ncolors |-> st.max_color + 1]

(* ---- dsatur_coloring ---- *)
\* st = [color, sat_deg, neighbor_colors, max_color]; neighbor_colors[u] is
\* the set of colours c with neighbor_colors[u][c] true; degree[v] is
\* adj_size[v].
\* "for (v = 1; v < n; v++) if (degree[v] > degree[first]) first = v;"
RECURSIVE dsatur_first(_, _, _, _)
dsatur_first(A, n, v, first) ==
    IF v >= n THEN first
    ELSE dsatur_first(A, n, v + 1, IF Len(A[v]) > Len(A[first]) THEN v ELSE first)

\* The saturation update over adj[x] after x received colour c; the update
\* after the first vertex does not test color[u].
RECURSIVE dsatur_saturate(_, _, _, _, _, _)
dsatur_saturate(A, x, c, k, is_first, st) ==
    IF k > Len(A[x]) THEN st
    ELSE LET u == A[x][k] IN
         IF (is_first \/ st.color[u] = 0 - 1) /\ c \notin st.neighbor_colors[u]
         THEN dsatur_saturate(A, x, c, k + 1, is_first,
                  [st EXCEPT !.neighbor_colors[u] = @ \cup {c}, !.sat_deg[u] = @ + 1])
         ELSE dsatur_saturate(A, x, c, k + 1, is_first, st)

\* The "no candidate" sentinel SIZE_MAX, written 0 - 1.
NO_CANDIDATE == 0 - 1

\* The scan for the uncoloured vertex of largest saturation, ties broken by
\* degree; sel = [max_sat, candidate].
RECURSIVE dsatur_select(_, _, _, _, _)
dsatur_select(A, n, v, st, sel) ==
    IF v >= n THEN sel
    ELSE IF st.color[v] # 0 - 1 THEN dsatur_select(A, n, v + 1, st, sel)
    ELSE IF \/ st.sat_deg[v] > sel.max_sat
            \/ /\ st.sat_deg[v] = sel.max_sat
               /\ Len(A[v]) > (IF sel.candidate # NO_CANDIDATE
                               THEN Len(A[sel.candidate]) ELSE 0)
    THEN dsatur_select(A, n, v + 1, st, [max_sat |-> st.sat_deg[v], candidate |-> v])
    ELSE dsatur_select(A, n, v + 1, st, sel)

dsatur_used(A, candidate, color) ==
    {color[A[candidate][k]] :
        k \in {j \in 1..Len(A[candidate]) : color[A[candidate][j]] # 0 - 1}}

\* "for (c = 0; c < (int)n; c++) if (!used[c]) break;"
RECURSIVE dsatur_first_free(_, _, _)
dsatur_first_free(used, n, c) ==
    IF c < n /\ c \in used THEN dsatur_first_free(used, n, c + 1) ELSE c

\* "for (step = 1; step < n; step++)"
RECURSIVE dsatur_loop(_, _, _, _)
dsatur_loop(A, n, step, st) ==
    IF step >= n THEN st
    ELSE LET sel == dsatur_select(A, n, 0, st, [max_sat |-> 0 - 1, candidate |-> NO_CANDIDATE])
         IN IF sel.candidate = NO_CANDIDATE THEN st
            ELSE LET c == dsatur_first_free(dsatur_used(A, sel.candidate, st.color), n, 0)
                     st1 == [st EXCEPT !.color[sel.candidate] = c,
                                       !.max_color = IF c > @ THEN c ELSE @]
                 IN dsatur_loop(A, n, step + 1,
                        dsatur_saturate(A, sel.candidate, c, 1, FALSE, st1))

\* Allocation failures are left out.
dsatur_coloring(A, n) ==
    LET first == dsatur_first(A, n, 1, 0)
        st0 == [color |-> [v \in 0..(n - 1) |-> IF v = first THEN 0 ELSE 0 - 1],
                sat_deg |-> [v \in 0..(n - 1) |-> 0],
                neighbor_colors |-> [v \in 0..(n - 1) |-> {}],
                max_color |-> 0]
        st == dsatur_loop(A, n, 1, dsatur_saturate(A, first, 0, 1, TRUE, st0))
    IN [kind |-> "coloring", color |-> st.color, ncolors |-> st.max_color + 1]

(* ---- topological_sort ---- *)
\* Mutant: the in-degrees are not counted.
topo_in_degree_zero(A, n) == [v \in 0..(n - 1) |-> 0]

\* "in_degree[v]++" for every adjacency entry v.
topo_in_degree(A, n) ==
    [v \in 0..(n - 1) |->
        Cardinality({<<u, k>> \in (0..(n - 1)) \X (1..TotalEntries(A)) :
                        k <= Len(A[u]) /\ A[u][k] = v})]

\* The queue filled with the vertices of in-degree zero, in index order.
RECURSIVE topo_queue_init(_, _, _)
topo_queue_init(in_degree, n, v) ==
    IF v >= n THEN <<>>
    ELSE (IF in_degree[v] = 0 THEN <<v>> ELSE <<>>) \o topo_queue_init(in_degree, n, v + 1)

\* The loop over adj[u] of the vertex taken from the queue;
\* st = [in_degree, queue, front, order].
RECURSIVE topo_relax(_, _, _, _)
topo_relax(A, u, k, st) ==
    IF k > Len(A[u]) THEN st
    ELSE LET v == A[u][k]
             d == st.in_degree[v] - 1
         IN topo_relax(A, u, k + 1,
                [st EXCEPT !.in_degree[v] = d,
                           !.queue = IF d = 0 THEN Append(@, v) ELSE @])

\* "while (front < back)"; front counts the entries taken, back is
\* Len(queue).
RECURSIVE topo_loop(_, _)
topo_loop(A, st) ==
    IF st.front >= Len(st.queue) THEN st
    ELSE LET u == st.queue[st.front + 1]
         IN topo_loop(A, topo_relax(A, u, 1,
                [st EXCEPT !.front = @ + 1, !.order = Append(@, u)]))

\* Allocation failures are left out; the entries of a graph built by
\* add_edge are all below n.
topological_sort(A, n, dir) ==
    IF ~dir \/ n = 0 THEN [kind |-> "topological_sort", null |-> TRUE, order |-> <<>>]
    ELSE LET in_degree == topo_in_degree(A, n)
             st == topo_loop(A, [in_degree |-> in_degree,
                                 queue |-> topo_queue_init(in_degree, n, 0),
                                 front |-> 0, order |-> <<>>])
         IN IF Len(st.order) # n
            THEN [kind |-> "topological_sort", null |-> TRUE, order |-> <<>>]
            ELSE [kind |-> "topological_sort", null |-> FALSE, order |-> st.order]

(* ---- detect_bridges_articulations ---- *)
\* st = [visited, dfs_num, dfs_low, parent, is_artic, bridges, time];
\* parent is -1 for "none", bridges is the sequence of pairs <<v1, v2>>.
\* Mutant: a root with one DFS child counts as well.
bridges_root_rule_any(parent_u, children) == parent_u = 0 - 1 /\ children > 0

\* "if (parent[u] == -1 && children > 1)"
bridges_root_rule(parent_u, children) == parent_u = 0 - 1 /\ children > 1

\* The nested function dfs(u, time) and the loop over adj[u] inside it;
\* bridges_dfs_adj returns [st, children].
RECURSIVE bridges_dfs(_, _, _)
RECURSIVE bridges_dfs_adj(_, _, _, _, _)
bridges_dfs_adj(A, u, k, children, st) ==
    IF k > Len(A[u]) THEN [st |-> st, children |-> children]
    ELSE LET v == A[u][k] IN
         IF ~st.visited[v]
         THEN LET s1 == bridges_dfs(A, v, [st EXCEPT !.parent[v] = u])
                  s2 == IF s1.dfs_low[u] > s1.dfs_low[v]
                        THEN [s1 EXCEPT !.dfs_low[u] = s1.dfs_low[v]] ELSE s1
                  s3 == IF s2.dfs_low[v] > s2.dfs_num[u]
                        THEN [s2 EXCEPT !.bridges = Append(@, <<u, v>>)] ELSE s2
                  s4 == IF s3.parent[u] # 0 - 1 /\ s3.dfs_low[v] >= s3.dfs_num[u]
                        THEN [s3 EXCEPT !.is_artic[u] = TRUE] ELSE s3
              IN bridges_dfs_adj(A, u, k + 1, children + 1, s4)
         ELSE IF st.parent[u] # v
         THEN bridges_dfs_adj(A, u, k + 1, children,
                  IF st.dfs_low[u] > st.dfs_num[v]
                  THEN [st EXCEPT !.dfs_low[u] = st.dfs_num[v]] ELSE st)
         ELSE bridges_dfs_adj(A, u, k + 1, children, st)

bridges_dfs(A, u, st) ==
    LET r == bridges_dfs_adj(A, u, 1, 0,
                 [st EXCEPT !.visited[u] = TRUE, !.dfs_num[u] = st.time,
                            !.dfs_low[u] = st.time, !.time = @ + 1])
    IN IF bridges_root_rule(r.st.parent[u], r.children)
       THEN [r.st EXCEPT !.is_artic[u] = TRUE] ELSE r.st

\* "for (u = 0; u < n; u++) if (!visited[u]) { int t = time; dfs(u, &t); }":
\* time itself stays 0, every tree is numbered from 0.
RECURSIVE bridges_roots(_, _, _, _)
bridges_roots(A, n, u, st) ==
    IF u >= n THEN st
    ELSE IF st.visited[u] THEN bridges_roots(A, n, u + 1, st)
    ELSE bridges_roots(A, n, u + 1, bridges_dfs(A, u, [st EXCEPT !.time = 0]))

\* "if (is_artic[i]) artics[nartics++] = i", in index order.
RECURSIVE bridges_collect(_, _, _)
bridges_collect(is_artic, n, i) ==
    IF i >= n THEN <<>>
    ELSE (IF is_artic[i] THEN <<i>> ELSE <<>>) \o bridges_collect(is_artic, n, i + 1)

\* Called with all four output pointers; allocation failures are left out.
detect_bridges_articulations(A, n, dir) ==
    IF dir THEN [kind |-> "bridges", ret |-> 0 - 1, bridges |-> <<>>, artics |-> <<>>]
    ELSE IF n = 0 THEN [kind |-> "bridges", ret |-> 0, bridges |-> <<>>, artics |-> <<>>]
    ELSE LET st == bridges_roots(A, n, 0,
                       [visited |-> [i \in 0..(n - 1) |-> FALSE],
                        dfs_num |-> [i \in 0..(n - 1) |-> 0 - 1],
                        dfs_low |-> [i \in 0..(n - 1) |-> 0 - 1],
                        parent |-> [i \in 0..(n - 1) |-> 0 - 1],
                        is_artic |-> [i \in 0..(n - 1) |-> FALSE],
                        bridges |-> <<>>, time |-> 0])
         IN [kind |-> "bridges", ret |-> 0, bridges |-> st.bridges,
             artics |-> bridges_collect(st.is_artic, n, 0)]

(* ---- hierholzer_eulerian_path ---- *)
\* Step 1: the vertices of odd adj_size, counted on undirected graphs only.
hierholzer_odd(A, n, dir) ==
    IF dir THEN {} ELSE {v \in 0..(n - 1) : Len(A[v]) % 2 # 0}

\* first_odd: the lowest odd vertex.
hierholzer_first_odd(odd) == CHOOSE v \in odd : \A w \in odd : v <= w

\* "if (!g->directed && odd_count == 2 && start != first_odd) start = first_odd"
hierholzer_start(odd, start) ==
    IF Cardinality(odd) = 2 /\ start # hierholzer_first_odd(odd)
    THEN hierholzer_first_odd(odd) ELSE start

\* "adj_copy[u][i] = adj_copy[u][--adj_size_copy[u]]" at the first i with
\* adj_copy[u][i] == v; nothing when there is none.
hierholzer_unlink(list, v) ==
    LET i == FirstIndex(list, v) IN
    IF i = 0 THEN list
    ELSE SubSeq([list EXCEPT ![i] = list[Len(list)]], 1, Len(list) - 1)

\* "while (stack_size > 0)"; st = [copy, stack, circuit, max_stack].  The
\* sequences are not bounded here: max_stack and Len(circuit) tell what the
\* buffers of n + 1 and n * n + 1 entries would have had to hold.
RECURSIVE hierholzer_loop(_, _)
hierholzer_loop(dir, st) ==
    IF st.stack = <<>> THEN st
    ELSE LET v == st.stack[Len(st.stack)] IN
         IF Len(st.copy[v]) > 0
         THEN LET u == st.copy[v][Len(st.copy[v])]
                  c1 == [st.copy EXCEPT ![v] = SubSeq(@, 1, Len(@) - 1)]
                  c2 == IF dir THEN c1 ELSE [c1 EXCEPT ![u] = hierholzer_unlink(@, v)]
                  stack == Append(st.stack, u)
              IN hierholzer_loop(dir,
                     [st EXCEPT !.copy = c2, !.stack = stack,
                                !.max_stack = IF Len(stack) > @ THEN Len(stack) ELSE @])
         ELSE hierholzer_loop(dir,
                  [st EXCEPT !.circuit = Append(@, v),
                             !.stack = SubSeq(@, 1, Len(@) - 1)])

\* "path[i] = circuit[circuit_size - 1 - i]"
hierholzer_reverse(circuit) ==
    [i \in 1..Len(circuit) |-> circuit[Len(circuit) + 1 - i]]

\* Called with out_path and out_len; allocation failures are left out.
\* overflow: a write went past the end of stack or circuit.
hierholzer_eulerian_path(A, n, dir, start) ==
    LET odd == hierholzer_odd(A, n, dir)
        none == [kind |-> "hierholzer", ret |-> FALSE, path |-> <<>>, len |-> 0,
                 max_stack |-> 0, circuit_size |-> 0, overflow |-> FALSE]
    IN IF start >= n THEN none
       ELSE IF ~dir /\ Cardinality(odd) # 0 /\ Cardinality(odd) # 2 THEN none
       ELSE LET st == hierholzer_loop(dir,
                          [copy |-> A, stack |-> <<hierholzer_start(odd, start)>>,
                           circuit |-> <<>>, max_stack |-> 1])
            IN [kind |-> "hierholzer", ret |-> TRUE,
                path |-> hierholzer_reverse(st.circuit), len |-> Len(st.circuit),
                max_stack |-> st.max_stack, circuit_size |-> Len(st.circuit),
                overflow |-> st.max_stack > n + 1 \/ Len(st.circuit) > n * n + 1]

NoOut == [kind |-> "none"]

NoRoundtrip == [phase |-> "none"]

Init ==
    /\ num_vertices \in 1..MaxVertices
    /\ directed \in BOOLEAN
    /\ adj = create_graph(num_vertices, directed).adj
    /\ call = [op |-> "create_graph", src |-> 0, dest |-> 0, ret |-> OK, warn |-> FALSE]
    /\ out = NoOut
    /\ roundtrip = NoRoundtrip
    /\ history = <<>>

(* ---- the calls a client makes on the graph ---- *)
\* Arguments range over 0..num_vertices, so num_vertices itself is the
\* out-of-range index.  A valid add_edge is offered while the graph's size,
\* its vertices plus the edges it holds, is below MaxSize.
Args == 0..num_vertices

AddEdgeStep(src, dest) ==
    LET r == add_edge(adj, num_vertices, directed, src, dest, FALSE, FALSE) IN
    /\ adj' = r.adj
    /\ call' = [op |-> "add_edge", src |-> src, dest |-> dest,
                ret |-> r.ret, warn |-> FALSE]
    /\ out' = NoOut
    /\ UNCHANGED <<num_vertices, directed>>

AddEdge(src, dest) ==
    /\ (src < num_vertices /\ dest < num_vertices)
           => num_vertices + EdgeCount(adj, directed) < MaxSize
    /\ AddEdgeStep(src, dest)
    /\ roundtrip' = IF call'.ret = OK
                    THEN [phase |-> "added", src |-> src, dest |-> dest, base |-> adj]
                    ELSE NoRoundtrip
    /\ UNCHANGED history

RemoveEdge(src, dest) ==
    LET r == remove_edge(adj, num_vertices, directed, src, dest) IN
    /\ adj' = r.adj
    /\ call' = [op |-> "remove_edge", src |-> src, dest |-> dest,
                ret |-> r.ret, warn |-> r.warn]
    /\ out' = NoOut
    /\ roundtrip' = IF /\ roundtrip.phase = "added"
                       /\ roundtrip.src = src
                       /\ roundtrip.dest = dest
                    THEN [roundtrip EXCEPT !.phase = "removed"]
                    ELSE NoRoundtrip
    /\ UNCHANGED <<num_vertices, directed, history>>

GetDegree(vertex) ==
    /\ call' = [op |-> "get_degree", src |-> vertex, dest |-> 0,
                ret |-> OK, warn |-> FALSE]
    /\ out' = [kind |-> "get_degree", value |-> get_degree(adj, num_vertices, vertex)]
    /\ roundtrip' = NoRoundtrip
    /\ UNCHANGED <<num_vertices, directed, adj, history>>

GetEdges ==
    /\ call' = [op |-> "get_edges", src |-> 0, dest |-> 0, ret |-> OK, warn |-> FALSE]
    /\ out' = get_edges(adj, num_vertices, directed)
    /\ roundtrip' = NoRoundtrip
    /\ UNCHANGED <<num_vertices, directed, adj, history>>

Bfs(start) ==
    /\ call' = [op |-> "bfs", src |-> start, dest |-> 0, ret |-> OK, warn |-> FALSE]
    /\ out' = bfs(adj, num_vertices, start)
    /\ roundtrip' = NoRoundtrip
    /\ UNCHANGED <<num_vertices, directed, adj, history>>

Next ==
    \/ \E src \in Args, dest \in Args : AddEdge(src, dest)
    \/ \E src \in Args, dest \in Args : RemoveEdge(src, dest)
    \/ \E vertex \in Args : GetDegree(vertex)
    \/ GetEdges
    \/ \E start \in Args : Bfs(start)

Spec == Init /\ [][Next]_vars

(* ---- the ring scenario: an undirected graph on ScenarioVertices        *)
(* vertices receives up to ScenarioEdges add_edge calls, each joining two  *)
(* neighbours on the ring 0 - 1 - ... - (n-1) - 0, in any order; history   *)
(* records the calls made.                                                 *)
InitScenario ==
    /\ num_vertices = ScenarioVertices
    /\ directed = FALSE
    /\ adj = create_graph(num_vertices, directed).adj
    /\ call = [op |-> "create_graph", src |-> 0, dest |-> 0, ret |-> OK, warn |-> FALSE]
    /\ out = NoOut
    /\ roundtrip = NoRoundtrip
    /\ history = <<>>

RingPairs ==
    {<<u, (u + 1) % num_vertices>> : u \in Vertices}
        \cup {<<(u + 1) % num_vertices, u>> : u \in Vertices}

ScenarioAddEdge(src, dest) ==
    /\ Len(history) < ScenarioEdges
    /\ AddEdgeStep(src, dest)
    /\ history' = Append(history, <<src, dest>>)
    /\ UNCHANGED roundtrip

NextScenario ==
    \/ \E p \in RingPairs : ScenarioAddEdge(p[1], p[2])
    \/ \E start \in Vertices : Bfs(start)

SpecScenario == InitScenario /\ [][NextScenario]_vars

(* ---- the algorithms, run on every small graph and on the ring ---- *)
\* The graphs are those of Spec, built by valid add_edge calls, and the ring
\* of the scenario built edge by edge in order,
\* add_edge(0,1), add_edge(1,2), ..., add_edge(n-1,0), optionally followed
\* by remove_edge(n-1,0); a remove_edge is recorded in history as
\* <<src, dest, REMOVED>>.
REMOVED == 0 - 1

RingNext == <<Len(history), (Len(history) + 1) % num_vertices>>

RingAddEdge ==
    /\ num_vertices = ScenarioVertices
    /\ Len(history) < num_vertices
    /\ ScenarioAddEdge(RingNext[1], RingNext[2])

RingRemoveEdge ==
    LET src == num_vertices - 1
        r == remove_edge(adj, num_vertices, directed, src, 0)
    IN
    /\ num_vertices = ScenarioVertices
    /\ Len(history) = num_vertices
    /\ adj' = r.adj
    /\ call' = [op |-> "remove_edge", src |-> src, dest |-> 0,
                ret |-> r.ret, warn |-> r.warn]
    /\ out' = NoOut
    /\ history' = Append(history, <<src, 0, REMOVED>>)
    /\ UNCHANGED <<num_vertices, directed, roundtrip>>

\* dfs: when the run leaves defined behaviour the outcome is not determined
\* by the program; returned is then either value.
Dfs(start) ==
    LET r == dfs(adj, num_vertices, start) IN
    /\ call' = [op |-> "dfs", src |-> start, dest |-> 0, ret |-> OK, warn |-> FALSE]
    /\ \E returned \in BOOLEAN :
           /\ (~r.undefined) => returned = ~r.null
           /\ out' = [kind |-> "dfs", null |-> r.null, path |-> r.path,
                      count |-> r.count, max_stack |-> r.max_stack,
                      overflow |-> r.overflow, pop_empty |-> r.pop_empty,
                      undefined |-> r.undefined, returned |-> returned]
    /\ roundtrip' = NoRoundtrip
    /\ UNCHANGED <<num_vertices, directed, adj, history>>

HasCycle ==
    /\ call' = [op |-> "has_cycle", src |-> 0, dest |-> 0, ret |-> OK, warn |-> FALSE]
    /\ out' = [kind |-> "has_cycle", value |-> has_cycle(adj, num_vertices)]
    /\ roundtrip' = NoRoundtrip
    /\ UNCHANGED <<num_vertices, directed, adj, history>>

ShortestPath(op, r, source, target) ==
    /\ call' = [op |-> op, src |-> source, dest |-> target, ret |-> OK, warn |-> FALSE]
    /\ out' = [kind |-> "shortest_path", dist |-> r.dist, path |-> r.path,
               len |-> r.len, null |-> r.null]
    /\ roundtrip' = NoRoundtrip
    /\ UNCHANGED <<num_vertices, directed, adj, history>>

Dijkstra(source, target) ==
    ShortestPath("dijkstra", dijkstra_shortest_path(adj, num_vertices, source, target),
                 source, target)

BellmanFord(source, target) ==
    ShortestPath("bellman_ford", bellman_ford_shortest_path(adj, num_vertices, source, target),
                 source, target)

FloydWarshall(source, target) ==
    ShortestPath("floyd_warshall", floyd_warshall_shortest_path(adj, num_vertices, source, target),
                 source, target)

Kruskal ==
    /\ call' = [op |-> "kruskal", src |-> 0, dest |-> 0, ret |-> OK, warn |-> FALSE]
    /\ \E sorted \in qsort(kruskal_edges(adj, num_vertices, directed, 0, 1)) :
           out' = kruskal_mst(num_vertices, sorted)
    /\ roundtrip' = NoRoundtrip
    /\ UNCHANGED <<num_vertices, directed, adj, history>>

GreedyColoring ==
    /\ call' = [op |-> "greedy_coloring", src |-> 0, dest |-> 0, ret |-> OK, warn |-> FALSE]
    /\ out' = greedy_sequential_coloring(adj, num_vertices)
    /\ roundtrip' = NoRoundtrip
    /\ UNCHANGED <<num_vertices, directed, adj, history>>

DsaturColoring ==
    /\ call' = [op |-> "dsatur_coloring", src |-> 0, dest |-> 0, ret |-> OK, warn |-> FALSE]
    /\ out' = dsatur_coloring(adj, num_vertices)
    /\ roundtrip' = NoRoundtrip
    /\ UNCHANGED <<num_vertices, directed, adj, history>>

TopologicalSort ==
    /\ call' = [op |-> "topological_sort", src |-> 0, dest |-> 0, ret |-> OK, warn |-> FALSE]
    /\ out' = topological_sort(adj, num_vertices, directed)
    /\ roundtrip' = NoRoundtrip
    /\ UNCHANGED <<num_vertices, directed, adj, history>>

DetectBridgesArticulations ==
    /\ call' = [op |-> "bridges", src |-> 0, dest |-> 0, ret |-> OK, warn |-> FALSE]
    /\ out' = detect_bridges_articulations(adj, num_vertices, directed)
    /\ roundtrip' = NoRoundtrip
    /\ UNCHANGED <<num_vertices, directed, adj, history>>

\* hierholzer_eulerian_path: after a write past the end of stack or circuit
\* the outcome is not determined by the program; the value returned and
\* the path handed out are then any of the values modelled.
Hierholzer(start) ==
    LET r == hierholzer_eulerian_path(adj, num_vertices, directed, start) IN
    /\ call' = [op |-> "hierholzer", src |-> start, dest |-> 0, ret |-> OK, warn |-> FALSE]
    /\ \E ret \in BOOLEAN :
           /\ (~r.overflow) => ret = r.ret
           /\ out' = [r EXCEPT !.ret = ret,
                               !.path = IF ret THEN r.path ELSE <<>>,
                               !.len = IF ret THEN r.len ELSE 0]
    /\ roundtrip' = NoRoundtrip
    /\ UNCHANGED <<num_vertices, directed, adj, history>>

InitAlgo == Init \/ InitScenario

\* The algorithms leave the graph as it is, so a run builds a graph and ends
\* with one algorithm call: every step starts from a state without a result.
NextAlgo ==
    \/ /\ out = NoOut
       /\ num_vertices <= MaxVertices
       /\ \E src \in Vertices, dest \in Vertices : AddEdge(src, dest)
    \/ out = NoOut /\ RingAddEdge
    \/ out = NoOut /\ RingRemoveEdge
    \/ out = NoOut /\ \E start \in Vertices : Dfs(start)
    \/ out = NoOut /\ HasCycle
    \/ out = NoOut /\ Kruskal
    \/ out = NoOut /\ GreedyColoring
    \/ out = NoOut /\ DsaturColoring
    \/ out = NoOut /\ TopologicalSort
    \/ out = NoOut /\ DetectBridgesArticulations
    \/ out = NoOut /\ \E start \in Vertices : Hierholzer(start)

SpecAlgo == InitAlgo /\ [][NextAlgo]_vars

(* ---- the three shortest-path routines on every small graph ---- *)
\* Every graph of the bounds is built by add_edge calls alone.
(* ---- add_edge under allocation failure ---- *)
\* add_edge with a safe_realloc that returns NULL: failed is 1 for the
\* realloc of adj[src], 2 for the realloc of adj[dest] (undirected only).
AddEdgeRealloc(src, dest, failed) ==
    LET r == add_edge(adj, num_vertices, directed, src, dest, failed = 1, failed = 2) IN
    /\ failed = 2 => ~directed
    /\ adj' = r.adj
    /\ call' = [op |-> "add_edge", src |-> src, dest |-> dest,
                ret |-> r.ret, warn |-> FALSE, failed |-> failed]
    /\ out' = NoOut
    /\ roundtrip' = NoRoundtrip
    /\ UNCHANGED <<num_vertices, directed, history>>

\* Graphs are built by add_edge; any call may meet a failing realloc.
NextRealloc ==
    \/ \E src \in Vertices, dest \in Vertices : AddEdge(src, dest)
    \/ \E src \in Vertices, dest \in Vertices, failed \in {1, 2} :
           AddEdgeRealloc(src, dest, failed)

SpecRealloc == Init /\ [][NextRealloc]_vars

NextPaths ==
    \/ out = NoOut /\ \E src \in Vertices, dest \in Vertices : AddEdge(src, dest)
    \/ out = NoOut /\ \E source \in Vertices, target \in Vertices : Dijkstra(source, target)
    \/ out = NoOut /\ \E source \in Vertices, target \in Vertices : BellmanFord(source, target)
    \/ out = NoOut /\ \E source \in Vertices, target \in Vertices : FloydWarshall(source, target)

SpecPaths == Init /\ [][NextPaths]_vars

(* ---- the flow routines ---- *)
\* The networks are the small graphs of Spec built by add_edge, and two
\* networks built edge by edge in a fixed order (history records the calls):
\* FlowParallel parallel edges 0 -> 1 on two vertices, and the directed
\* network on FlowVertices vertices with the edges FlowEdges.
MaxCapacity == 2

FlowParallel == 5

FlowVertices == 6

FlowEdges == << <<0, 1>>, <<0, 2>>, <<1, 4>>, <<1, 3>>, <<2, 4>>, <<3, 5>>, <<4, 5>> >>

AdjacencyPairs(A) ==
    UNION {{<<u, A[u][i]>> : i \in 1..Len(A[u])} : u \in DOMAIN A}

\* The capacity matrices of the caller: 1..MaxCapacity on the pairs of the
\* adjacency lists, 0 elsewhere.
Capacities ==
    {[u \in Vertices |-> [v \in Vertices |->
          IF <<u, v>> \in AdjacencyPairs(adj) THEN f[<<u, v>>] ELSE 0]] :
     f \in [AdjacencyPairs(adj) -> 1..MaxCapacity]}

InitFlow ==
    \/ Init
    \/ /\ num_vertices = FlowVertices
       /\ directed = TRUE
       /\ adj = create_graph(num_vertices, directed).adj
       /\ call = [op |-> "create_graph", src |-> 0, dest |-> 0, ret |-> OK, warn |-> FALSE]
       /\ out = NoOut
       /\ roundtrip = NoRoundtrip
       /\ history = <<>>

FlowAddEdge ==
    /\ num_vertices = FlowVertices
    /\ Len(history) < Len(FlowEdges)
    /\ AddEdgeStep(FlowEdges[Len(history) + 1][1], FlowEdges[Len(history) + 1][2])
    /\ history' = Append(history, FlowEdges[Len(history) + 1])
    /\ UNCHANGED roundtrip

ParallelAddEdge ==
    /\ num_vertices = 2
    /\ directed
    /\ TotalEntries(adj) = Len(history)
    /\ Len(history) < FlowParallel
    /\ AddEdgeStep(0, 1)
    /\ history' = Append(history, <<0, 1>>)
    /\ UNCHANGED roundtrip

EdmondsKarp(capacity, source, sink) ==
    LET r == edmonds_karp_max_flow(adj, num_vertices, capacity, source, sink) IN
    /\ call' = [op |-> "edmonds_karp", src |-> source, dest |-> sink, ret |-> OK, warn |-> FALSE]
    /\ out' = [kind |-> "max_flow", capacity |-> capacity, ret |-> r.ret,
               residual |-> r.residual]
    /\ roundtrip' = NoRoundtrip
    /\ UNCHANGED <<num_vertices, directed, adj, history>>

\* min_cut: after a write past the cut buffer the outcome is not determined
\* by the program; returned is then either value.
MinCut(capacity, source, sink) ==
    LET r == min_cut(adj, num_vertices, capacity, source, sink) IN
    /\ call' = [op |-> "min_cut", src |-> source, dest |-> sink, ret |-> OK, warn |-> FALSE]
    /\ \E returned \in BOOLEAN :
           /\ (~r.overflow) => returned
           /\ out' = [kind |-> "min_cut", capacity |-> capacity, ret |-> r.ret,
                      cut |-> r.cut, ncut |-> r.ncut, null |-> r.null,
                      reachable |-> r.reachable, residual |-> r.residual,
                      overflow |-> r.overflow, returned |-> returned]
    /\ roundtrip' = NoRoundtrip
    /\ UNCHANGED <<num_vertices, directed, adj, history>>

NextFlow ==
    \/ /\ out = NoOut
       /\ num_vertices <= MaxVertices
       /\ history = <<>>
       /\ \E src \in Vertices, dest \in Vertices : AddEdge(src, dest)
    \/ out = NoOut /\ FlowAddEdge
    \/ out = NoOut /\ ParallelAddEdge
    \/ /\ out = NoOut
       /\ \E capacity \in Capacities, source \in Args, sink \in Args :
              EdmondsKarp(capacity, source, sink)
    \/ /\ out = NoOut
       /\ \E capacity \in Capacities, source \in Args, sink \in Args :
              MinCut(capacity, source, sink)

SpecFlow == InitFlow /\ [][NextFlow]_vars

(***************************************************************************)
(* Properties                                                              *)
(***************************************************************************)

Min2(a, b) == IF a < b THEN a ELSE b
Max2(a, b) == IF a < b THEN b ELSE a

ValidCall(c) == c.src < num_vertices /\ c.dest < num_vertices

\* t is s with the first occurrence of x taken out, the rest in order.
FirstRemoved(s, t, x) ==
    \E i \in 1..Len(s) :
        /\ s[i] = x
        /\ \A j \in 1..(i - 1) : s[j] # x
        /\ Len(t) = Len(s) - 1
        /\ \A j \in 1..(i - 1) : t[j] = s[j]
        /\ \A j \in i..Len(t) : t[j] = s[j + 1]

\* t is s with its first two occurrences of x taken out, the rest in order.
FirstTwoRemoved(s, t, x) ==
    /\ Count(s, x) >= 2
    /\ LET m == RemoveAt(s, FirstIndex(s, x))
       IN FirstRemoved(s, m, x) /\ FirstRemoved(m, t, x)

SameMultiset(s, t) ==
    /\ Len(s) = Len(t)
    /\ \A x \in {s[i] : i \in 1..Len(s)} : Count(s, x) = Count(t, x)

\* ---- C1 ----
NeighborsInRange ==
    \A v \in DOMAIN adj : \A i \in 1..Len(adj[v]) :
        adj[v][i] >= 0 /\ adj[v][i] < num_vertices

\* C1: after any sequence of add_edge / remove_edge calls with arbitrary
\* arguments, every stored neighbour index is < num_vertices; num_vertices
\* and directed never change; an add_edge with an out-of-range index returns
\* an error and leaves every adjacency list unchanged.
C1_NeighborsInRange ==
    /\ []NeighborsInRange
    /\ [][/\ num_vertices' = num_vertices
          /\ directed' = directed
          /\ DOMAIN adj' = DOMAIN adj
          /\ (call'.op = "add_edge" /\ ~ValidCall(call'))
                 => (call'.ret # OK /\ adj' = adj)]_vars

C1_Witness ==
    /\ call.op = "add_edge"
    /\ call.ret = ERR_INVALID
    /\ TotalEntries(adj) >= 2

\* ---- C2 ----
Symmetric(A) ==
    \A u \in DOMAIN A, v \in DOMAIN A :
        u # v => Count(A[u], v) = Count(A[v], u)

\* C2: in an undirected graph, for all u # v the number of occurrences of v
\* in u's list equals the number of occurrences of u in v's list, and
\* remove_edge never takes the branch "src side removed, mirrored side not
\* found".
C2_UndirectedSymmetric ==
    ~directed => (Symmetric(adj) /\ ~call.warn)

C2_Witness ==
    /\ ~directed
    /\ call.op = "remove_edge"
    /\ call.ret = OK
    /\ call.src # call.dest
    /\ Count(adj[call.src], call.dest) >= 1

\* ---- C3 ----
\* C3 as stated: a successful add_edge(u, v) followed immediately by
\* remove_edge(u, v) leaves every adjacency list exactly as before the
\* add_edge.
C3_RoundTripExact ==
    roundtrip.phase = "removed" => adj = roundtrip.base

\* C3 amended: after the round trip every adjacency list holds the same
\* neighbours as before the add_edge, as many times each; the lists are
\* exactly the same sequences when v did not already occur in u's list.
C3_RoundTripMultiset ==
    roundtrip.phase = "removed" =>
        /\ call.ret = OK
        /\ \A w \in Vertices : SameMultiset(adj[w], roundtrip.base[w])
        /\ \A w \in Vertices \ {roundtrip.src, roundtrip.dest} :
               adj[w] = roundtrip.base[w]
        /\ Count(roundtrip.base[roundtrip.src], roundtrip.dest) = 0
               => adj = roundtrip.base

C3_Witness ==
    /\ roundtrip.phase = "removed"
    /\ Count(roundtrip.base[roundtrip.src], roundtrip.dest) >= 1
    /\ adj # roundtrip.base

\* ---- C4 ----
RemoveFound(c) ==
    /\ c.op = "remove_edge"
    /\ ValidCall(c)
    /\ Count(adj[c.src], c.dest) >= 1

\* C4 as stated: remove_edge(u, v) with v in u's list deletes exactly the
\* first occurrence of v from u's list and, undirected, exactly the first
\* occurrence of u from v's list; other lists unchanged; returns success.
C4_RemoveFirstOnly ==
    [][RemoveFound(call') =>
          /\ call'.ret = OK
          /\ FirstRemoved(adj[call'.src], adj'[call'.src], call'.dest)
          /\ ~directed =>
                 FirstRemoved(adj[call'.dest], adj'[call'.dest], call'.src)
          /\ (directed /\ call'.dest # call'.src) =>
                 adj'[call'.dest] = adj[call'.dest]
          /\ \A w \in Vertices \ {call'.src, call'.dest} : adj'[w] = adj[w]]_vars

\* C4 amended: as stated when u # v or the graph is directed; for a
\* self-loop (u = v) on an undirected graph the first two occurrences of u
\* are deleted from u's list.
C4_RemoveFirst ==
    [][RemoveFound(call') =>
          /\ call'.ret = OK
          /\ (directed \/ call'.src # call'.dest) =>
                 FirstRemoved(adj[call'.src], adj'[call'.src], call'.dest)
          /\ (~directed /\ call'.src # call'.dest) =>
                 FirstRemoved(adj[call'.dest], adj'[call'.dest], call'.src)
          /\ (~directed /\ call'.src = call'.dest) =>
                 FirstTwoRemoved(adj[call'.src], adj'[call'.src], call'.src)
          /\ (directed /\ call'.dest # call'.src) =>
                 adj'[call'.dest] = adj[call'.dest]
          /\ \A w \in Vertices \ {call'.src, call'.dest} : adj'[w] = adj[w]]_vars

C4_Witness ==
    /\ call.op = "remove_edge"
    /\ call.ret = OK
    /\ Count(adj[call.src], call.dest) >= 1
    /\ Len(adj[call.src]) >= 2

\* ---- C5 ----
\* C5: remove_edge(u, v) with valid indices where v does not occur in u's
\* list returns -3 and leaves every adjacency list unchanged, directed or
\* not (on a directed graph even when u occurs in v's list).
C5_RemoveNotFound ==
    [][(/\ call'.op = "remove_edge"
        /\ ValidCall(call')
        /\ Count(adj[call'.src], call'.dest) = 0)
           => (call'.ret = ERR_NOT_FOUND /\ adj' = adj)]_vars

C5_Witness ==
    /\ directed
    /\ call.op = "remove_edge"
    /\ call.ret = ERR_NOT_FOUND
    /\ ValidCall(call)
    /\ Count(adj[call.dest], call.src) >= 1

\* ---- C6 ----
SelfLoopAdded(c) ==
    /\ c.op = "add_edge"
    /\ c.ret = OK
    /\ c.src = c.dest

\* C6 as stated: on an undirected graph a successful add_edge(u, u) inserts
\* u exactly once into u's list, so get_degree(u) grows by exactly 1.
C6_SelfLoopOnce ==
    [][(~directed /\ SelfLoopAdded(call')) =>
          /\ Count(adj'[call'.src], call'.src) = Count(adj[call'.src], call'.src) + 1
          /\ get_degree(adj', num_vertices, call'.src)
                 = get_degree(adj, num_vertices, call'.src) + 1]_vars

\* C6 amended: on an undirected graph a successful add_edge(u, u) inserts u
\* exactly twice into u's list, so get_degree(u) grows by exactly 2; on a
\* directed graph it inserts u once.
C6_SelfLoopTwice ==
    [][SelfLoopAdded(call') =>
          LET k == IF directed THEN 1 ELSE 2 IN
          /\ Count(adj'[call'.src], call'.src) = Count(adj[call'.src], call'.src) + k
          /\ get_degree(adj', num_vertices, call'.src)
                 = get_degree(adj, num_vertices, call'.src) + k
          /\ adj'[call'.src] = adj[call'.src] \o [i \in 1..k |-> call'.src]
          /\ \A w \in Vertices \ {call'.src} : adj'[w] = adj[w]]_vars

C6_Witness ==
    /\ ~directed
    /\ SelfLoopAdded(call)
    /\ Len(adj[call.src]) >= 3

\* ---- C7 ----
\* The unordered pairs that have at least one adjacency entry, as (min, max).
UndirectedPairs(A) ==
    UNION {{<<Min2(u, A[u][i]), Max2(u, A[u][i])>> : i \in 1..Len(A[u])} :
               u \in DOMAIN A}

EdgePairs(edges) == {<<edges[i].v1, edges[i].v2>> : i \in 1..Len(edges)}

\* C7: on an undirected graph get_edges returns each unordered pair that
\* has an adjacency entry exactly once, as (min, max), and nothing else; the
\* result is the same whether an edge is added as (u, v) or (v, u), and
\* adding an edge again does not change it.
C7_UndirectedEdges ==
    ~directed =>
        /\ call.op = "get_edges" =>
               /\ ~out.err
               /\ EdgePairs(out.edges) = UndirectedPairs(adj)
               /\ out.num_edges = Cardinality(UndirectedPairs(adj))
               /\ out.num_edges = Len(out.edges)
               /\ out.null = (out.num_edges = 0)
        /\ \A u \in Vertices, v \in Vertices :
               LET Auv == add_edge(adj, num_vertices, directed, u, v, FALSE, FALSE).adj
                   Avu == add_edge(adj, num_vertices, directed, v, u, FALSE, FALSE).adj
               IN /\ get_edges(Auv, num_vertices, directed)
                        = get_edges(Avu, num_vertices, directed)
                  /\ Count(adj[u], v) >= 1 =>
                         get_edges(Auv, num_vertices, directed)
                             = get_edges(adj, num_vertices, directed)

C7_Witness ==
    /\ ~directed
    /\ call.op = "get_edges"
    /\ out.num_edges >= 2
    /\ \E u \in Vertices, v \in Vertices : u < v /\ Count(adj[u], v) >= 2

\* ---- C8 ----
RECURSIVE Flatten(_, _, _)
\* The adjacency entries as (source, dest), in vertex order then list order.
Flatten(A, n, v) ==
    IF v >= n THEN <<>>
    ELSE [i \in 1..Len(A[v]) |-> [v1 |-> v, v2 |-> A[v][i]]] \o Flatten(A, n, v + 1)

\* C8: on a directed graph get_edges returns exactly one (source, dest)
\* entry per adjacency-list entry, in vertex order then list order, so the
\* number of edges returned is the sum of all adjacency-list lengths.
C8_DirectedEdges ==
    (directed /\ call.op = "get_edges") =>
        /\ out.edges = Flatten(adj, num_vertices, 0)
        /\ out.num_edges = TotalEntries(adj)

\* ---- C9 ----
RECURSIVE ReachFrom(_, _)
\* The vertices reachable from the set S by following adjacency lists.
ReachFrom(A, S) ==
    LET T == S \cup UNION {{A[v][i] : i \in 1..Len(A[v])} : v \in S}
    IN IF T = S THEN S ELSE ReachFrom(A, T)

\* C9: for a valid start, the visit order of bfs(start) contains exactly the
\* vertices reachable from start, each once, beginning with start, and the
\* queue never receives more than num_vertices entries.
C9_BfsReachable ==
    (call.op = "bfs" /\ call.src < num_vertices) =>
        /\ ~out.null
        /\ {out.result[i] : i \in 1..Len(out.result)} = ReachFrom(adj, {call.src})
        /\ \A i \in 1..Len(out.result), j \in 1..Len(out.result) :
               out.result[i] = out.result[j] => i = j
        /\ out.result[1] = call.src
        /\ out.count = Len(out.result)
        /\ out.rear <= num_vertices

C9_Witness ==
    /\ call.op = "bfs"
    /\ call.src < num_vertices
    /\ out.count >= 2
    /\ out.count < num_vertices
    /\ \E u \in Vertices : \E v \in Vertices : Count(adj[u], v) >= 2

\* ---- C10 ----
FourCycleBuilt ==
    /\ num_vertices = 4
    /\ ~directed
    /\ history = << <<0, 1>>, <<1, 2>>, <<2, 3>>, <<3, 0>> >>
    /\ call.op = "bfs"
    /\ call.src = 0

\* C10 as stated: on the undirected 4-vertex graph built by add_edge(0,1),
\* add_edge(1,2), add_edge(2,3), add_edge(3,0), bfs(0) visits [0, 1, 2, 3].
C10_BfsOrder0123 ==
    FourCycleBuilt => out.result = <<0, 1, 2, 3>>

\* C10 amended: on that graph bfs(0) visits [0, 1, 3, 2] (both neighbours
\* of 0, in the order of its adjacency list [1, 3], before vertex 2).
C10_BfsOrder0132 ==
    FourCycleBuilt =>
        /\ adj = [v \in 0..3 |-> << <<1, 3>>, <<0, 2>>, <<1, 3>>, <<2, 0>> >>[v + 1]]
        /\ out.result = <<0, 1, 3, 2>>

C10_Witness ==
    FourCycleBuilt /\ out.count = 4

(* ---- dfs ---- *)
RECURSIVE ReversePreorderFrom(_, _, _, _)
\* The recursive depth-first search that takes the neighbours of v from the
\* last adjacency entry to the first; seen is the visit order so far.
ReversePreorderFrom(A, v, i, seen) ==
    IF i < 1 THEN seen
    ELSE LET w == A[v][i] IN
         IF \E k \in 1..Len(seen) : seen[k] = w
         THEN ReversePreorderFrom(A, v, i - 1, seen)
         ELSE ReversePreorderFrom(A, v, i - 1,
                  ReversePreorderFrom(A, w, Len(A[w]), Append(seen, w)))

ReversePreorder(A, start) ==
    ReversePreorderFrom(A, start, Len(A[start]), <<start>>)

\* C11: for a valid start, dfs(start) returns the preorder of the
\* reverse-list-order depth-first search: exactly the vertices reachable
\* from start, each once.
C11_DfsPreorder ==
    (call.op = "dfs" /\ call.src < num_vertices) =>
        /\ out.returned
        /\ ~out.undefined
        /\ out.path = ReversePreorder(adj, call.src)
        /\ {out.path[i] : i \in 1..Len(out.path)} = ReachFrom(adj, {call.src})

\* What the code does keep: as long as no push went past the stack buffer,
\* the entries written to path before the pop from the empty stack are that
\* preorder.
DfsPrefixPreorder ==
    (call.op = "dfs" /\ call.src < num_vertices /\ ~out.overflow) =>
        /\ out.path = ReversePreorder(adj, call.src)
        /\ {out.path[i] : i \in 1..Len(out.path)} = ReachFrom(adj, {call.src})

\* C12: dfs runs to completion: its main loop exits once the explicit stack
\* is empty, without popping from the empty stack, and the visit order is
\* returned.
C12_DfsCompletes ==
    (call.op = "dfs" /\ call.src < num_vertices) =>
        /\ ~out.pop_empty
        /\ out.returned

(* ---- has_cycle ---- *)
RECURSIVE SumDegrees(_, _)
\* The number of adjacency entries of the vertices of S.
SumDegrees(A, S) ==
    IF S = {} THEN 0
    ELSE LET v == CHOOSE x \in S : TRUE
         IN Len(A[v]) + SumDegrees(A, S \ {v})

\* An undirected graph contains a cycle: some connected component has at
\* least as many edges as vertices (every edge is two adjacency entries,
\* parallel edges and self-loops included).
ContainsCycle(A) ==
    \E v \in DOMAIN A :
        LET comp == ReachFrom(A, {v})
        IN SumDegrees(A, comp) >= 2 * Cardinality(comp)

RingBuilt ==
    /\ num_vertices = 4
    /\ ~directed
    /\ Len(history) >= 4
    /\ SubSeq(history, 1, 4) = << <<0, 1>>, <<1, 2>>, <<2, 3>>, <<3, 0>> >>

\* C13: on an undirected graph has_cycle is true exactly when the graph
\* contains a cycle; it is true on the 4-cycle 0-1-2-3-0 and false after
\* remove_edge(3, 0).
C13_HasCycle ==
    (call.op = "has_cycle" /\ ~directed) =>
        /\ out.value = ContainsCycle(adj)
        /\ (RingBuilt /\ Len(history) = 4) => out.value
        /\ (RingBuilt /\ Len(history) = 5) => ~out.value

C13_Witness ==
    /\ call.op = "has_cycle"
    /\ RingBuilt
    /\ history = << <<0, 1>>, <<1, 2>>, <<2, 3>>, <<3, 0>>, <<3, 0, REMOVED>> >>
    /\ ~out.value

(* ---- shortest paths ---- *)
IsShortestPathCall == call.op \in {"dijkstra", "bellman_ford", "floyd_warshall"}

\* C14: for every graph and every valid (source, target), source = target
\* included, dijkstra, bellman_ford and floyd_warshall return the same
\* distance.
C14_SameDistance ==
    IsShortestPathCall =>
        /\ out.dist = dijkstra_shortest_path(adj, num_vertices, call.src, call.dest).dist
        /\ out.dist = bellman_ford_shortest_path(adj, num_vertices, call.src, call.dest).dist
        /\ out.dist = floyd_warshall_shortest_path(adj, num_vertices, call.src, call.dest).dist

\* Outside the diagonal of a vertex with a self-loop the three agree.
SameDistanceOffSelfLoop ==
    (IsShortestPathCall /\ ~(call.src = call.dest /\ Count(adj[call.src], call.src) > 0)) =>
        C14_SameDistance

RECURSIVE MinEdgesFrom(_, _, _, _)
\* The number of edges of a shortest path from the set seen (all vertices at
\* distance <= d from the source) to target, INT_MAX when there is none.
MinEdgesFrom(A, seen, target, d) ==
    IF target \in seen THEN d
    ELSE LET next == seen \cup UNION {{A[v][i] : i \in 1..Len(A[v])} : v \in seen}
         IN IF next = seen THEN INT_MAX
            ELSE MinEdgesFrom(A, next, target, d + 1)

MinEdges(A, source, target) == MinEdgesFrom(A, {source}, target, 0)

\* C15: dijkstra returns the minimum number of edges from source to target,
\* 0 when they are equal and INT_MAX exactly when target is unreachable.
C15_DijkstraMinEdges ==
    call.op = "dijkstra" =>
        /\ out.dist = MinEdges(adj, call.src, call.dest)
        /\ (call.src = call.dest) => out.dist = 0
        /\ (out.dist = INT_MAX) <=> (call.dest \notin ReachFrom(adj, {call.src}))

\* A distance of 2 found although a lower-numbered neighbour of the source
\* is visited before the target: the early stop did not cut the search short.
C15_Witness ==
    /\ call.op = "dijkstra"
    /\ out.dist = 2
    /\ \E v \in Vertices : v < call.dest /\ v # call.src /\ Count(adj[call.src], v) > 0

\* C16: a finite distance d comes with a path of d + 1 vertices from source
\* to target whose consecutive vertices are adjacent; INT_MAX comes with no
\* path and length 0.
C16_PathMatchesDistance ==
    IsShortestPathCall =>
        IF out.dist = INT_MAX
        THEN out.null /\ out.len = 0
        ELSE /\ ~out.null
             /\ out.len = out.dist + 1
             /\ Len(out.path) = out.len
             /\ out.path[1] = call.src
             /\ out.path[out.len] = call.dest
             /\ \A i \in 1..(out.len - 1) :
                    Count(adj[out.path[i]], out.path[i + 1]) > 0

PathMatchesDistanceOffSelfLoop ==
    (IsShortestPathCall /\ ~(call.op = "floyd_warshall" /\ call.src = call.dest)) =>
        C16_PathMatchesDistance

(* ---- kruskal_mst ---- *)
RECURSIVE ConnectedFrom(_, _)
\* The vertices joined to the set S by the pairs of E, read in either
\* direction.
ConnectedFrom(E, S) ==
    LET T == S \cup {e[2] : e \in {f \in E : f[1] \in S}}
                 \cup {e[1] : e \in {f \in E : f[2] \in S}}
    IN IF T = S THEN S ELSE ConnectedFrom(E, T)

\* The pairs of E connect all of 0..n-1.
Spanning(E, n) == ConnectedFrom(E, {0}) = 0..(n - 1)

MstPairs(edges) == {<<edges[i].v1, edges[i].v2>> : i \in 1..Len(edges)}

\* C17: kruskal_mst returns -1 exactly when the graph read as undirected is
\* disconnected; otherwise it returns n-1 edges of the graph that span all
\* vertices without a cycle, with total weight n-1; on the 4-cycle it
\* returns weight 3 and 3 edges.
C17_KruskalSpanningTree ==
    call.op = "kruskal" =>
        /\ (out.ret = 0 - 1) <=> ~Spanning(AdjacencyPairs(adj), num_vertices)
        /\ (out.ret # 0 - 1) =>
               /\ out.nedges = num_vertices - 1
               /\ Len(out.edges) = out.nedges
               /\ out.ret = num_vertices - 1
               /\ MstPairs(out.edges) \subseteq AdjacencyPairs(adj)
               /\ Spanning(MstPairs(out.edges), num_vertices)
        /\ (RingBuilt /\ Len(history) = 4) => (out.ret = 3 /\ out.nedges = 3)

C17_Witness ==
    /\ call.op = "kruskal"
    /\ RingBuilt
    /\ Len(history) = 4
    /\ out.ret = 3
    /\ out.nedges = 3

(* ---- flows ---- *)
ValidFlowCall == call.src < num_vertices /\ call.dest < num_vertices /\ call.src # call.dest

\* The capacity of the cut (S, complement of S).
CutCapacity(capacity, S) ==
    LET pairs == {p \in Vertices \X Vertices : p[1] \in S /\ p[2] \notin S}
        RECURSIVE Sum(_)
        Sum(P) == IF P = {} THEN 0
                  ELSE LET p == CHOOSE q \in P : TRUE
                       IN capacity[p[1]][p[2]] + Sum(P \ {p})
    IN Sum(pairs)

\* The minimum cut capacity over all S with source in S and sink outside.
MinCutCapacity(capacity, source, sink) ==
    LET cuts == {CutCapacity(capacity, S \cup {source}) :
                    S \in SUBSET (Vertices \ {source, sink})}
    IN CHOOSE c \in cuts : \A d \in cuts : c <= d

RECURSIVE ResidualReach(_, _)
\* The vertices reachable from S over arcs of positive residual capacity,
\* backward arcs included.
ResidualReach(residual, S) ==
    LET T == S \cup {v \in Vertices : \E u \in S : residual[u][v] > 0}
    IN IF T = S THEN S ELSE ResidualReach(residual, T)

\* C18: for source # sink edmonds_karp_max_flow returns the value of a
\* maximum flow, the minimum capacity of a cut separating source from sink,
\* and leaves no augmenting path in the residual graph, backward arcs
\* included.
C18_MaxFlowIsMinCut ==
    (call.op = "edmonds_karp" /\ ValidFlowCall) =>
        /\ out.ret = MinCutCapacity(out.capacity, call.src, call.dest)
        /\ call.dest \notin ResidualReach(out.residual, {call.src})

\* On undirected graphs every backward arc is an adjacency entry and the
\* value is the maximum flow.
MaxFlowIsMinCutUndirected ==
    (call.op = "edmonds_karp" /\ ValidFlowCall /\ ~directed) =>
        /\ out.ret = MinCutCapacity(out.capacity, call.src, call.dest)
        /\ call.dest \notin ResidualReach(out.residual, {call.src})

\* C19: min_cut returns the value edmonds_karp_max_flow returns on the same
\* inputs, the error value -1 included.
C19_MinCutEqualsMaxFlow ==
    call.op = "min_cut" =>
        /\ out.returned
        /\ out.ret = edmonds_karp_max_flow(adj, num_vertices, out.capacity,
                                           call.src, call.dest).ret

\* As long as the cut entries fit the buffer the two values are equal.
MinCutEqualsMaxFlowInBuffer ==
    (call.op = "min_cut" /\ ~out.overflow) => C19_MinCutEqualsMaxFlow

RECURSIVE SumCapacity(_, _)
SumCapacity(capacity, cut) ==
    IF cut = <<>> THEN 0
    ELSE capacity[cut[1].v1][cut[1].v2] + SumCapacity(capacity, Tail(cut))

\* C20: for source # sink the cut edges reported by min_cut are exactly the
\* pairs (u, v) with u reachable from source in the final residual graph,
\* v not reachable and capacity[u][v] > 0, each reported once, and their
\* capacities add up to the returned cut value.
C20_CutEdges ==
    (call.op = "min_cut" /\ ValidFlowCall) =>
        LET R == ResidualReach(out.residual, {call.src}) IN
        /\ {<<out.cut[i].v1, out.cut[i].v2>> : i \in 1..Len(out.cut)} =
               {p \in Vertices \X Vertices :
                    p[1] \in R /\ p[2] \notin R /\ out.capacity[p[1]][p[2]] > 0}
        /\ \A i \in 1..Len(out.cut), j \in 1..Len(out.cut) :
               out.cut[i] = out.cut[j] => i = j
        /\ out.ncut = Len(out.cut)
        /\ SumCapacity(out.capacity, out.cut) = out.ret

\* On undirected graphs without parallel edges the reported cut is exact.
CutEdgesUndirectedSimple ==
    (call.op = "min_cut" /\ ValidFlowCall /\ ~directed
        /\ \A u \in Vertices, v \in Vertices : u # v => Count(adj[u], v) <= 1) =>
        C20_CutEdges

(* ---- colouring ---- *)
IsColoringCall == call.op \in {"greedy_coloring", "dsatur_coloring"}

ProperColoring(A, color) ==
    \A u \in DOMAIN A :
        /\ color[u] >= 0
        /\ \A i \in 1..Len(A[u]) : A[u][i] # u => color[A[u][i]] # color[u]

\* C21: on every graph, directed or undirected, both colourings give every
\* vertex a colour >= 0 and never the same colour to two distinct vertices
\* u, v with v in u's adjacency list.
C21_ProperColoring ==
    IsColoringCall => ProperColoring(adj, out.color)

\* On undirected graphs both colourings are proper.
ProperColoringUndirected ==
    (IsColoringCall /\ ~directed) => ProperColoring(adj, out.color)

MaxDegree(A) ==
    CHOOSE d \in {Len(A[v]) : v \in DOMAIN A} : \A v \in DOMAIN A : Len(A[v]) <= d

\* C22: the number of colours reported by either colouring is at most the
\* maximum adjacency-list length plus one, and the colours used are exactly
\* 0 .. reported_count - 1.
C22_ColorCount ==
    IsColoringCall =>
        /\ out.ncolors <= MaxDegree(adj) + 1
        /\ {out.color[v] : v \in Vertices} = 0..(out.ncolors - 1)

C22_Witness ==
    /\ IsColoringCall
    /\ out.ncolors = 3
    /\ out.ncolors = MaxDegree(adj) + 1

(* ---- topological_sort ---- *)
\* Some vertex is reachable from one of its own adjacency entries.
DirectedCycle(A) ==
    \E u \in DOMAIN A : u \in ReachFrom(A, {A[u][i] : i \in 1..Len(A[u])})

Position(order, v) == CHOOSE i \in 1..Len(order) : order[i] = v

TriangleDag ==
    /\ num_vertices = 3
    /\ directed
    /\ adj = [v \in 0..2 |-> IF v = 0 THEN <<1, 2>> ELSE IF v = 1 THEN <<2>> ELSE <<>>]

\* C23: on a directed graph topological_sort returns NULL exactly when the
\* graph contains a directed cycle (self-loops included); otherwise it
\* returns a permutation of all vertices in which u comes before v for every
\* adjacency entry (u, v); on the edges (0,1), (1,2), (0,2) it returns
\* [0, 1, 2].
C23_TopologicalSort ==
    (call.op = "topological_sort" /\ directed) =>
        /\ out.null <=> DirectedCycle(adj)
        /\ (~out.null) =>
               /\ Len(out.order) = num_vertices
               /\ {out.order[i] : i \in 1..Len(out.order)} = Vertices
               /\ \A u \in Vertices : \A k \in 1..Len(adj[u]) :
                      Position(out.order, u) < Position(out.order, adj[u][k])
        /\ TriangleDag => (~out.null /\ out.order = <<0, 1, 2>>)

C23_Witness ==
    /\ call.op = "topological_sort"
    /\ TriangleDag
    /\ out.order = <<0, 1, 2>>

C23_WitnessCycle ==
    /\ call.op = "topological_sort"
    /\ directed
    /\ DirectedCycle(adj)
    /\ \A u \in Vertices : Count(adj[u], u) = 0
    /\ out.null

(* ---- detect_bridges_articulations ---- *)
\* The number of connected components among the vertices of V joined by the
\* pairs of E.
RECURSIVE Components(_, _)
Components(E, V) ==
    IF V = {} THEN 0
    ELSE LET v == CHOOSE x \in V : TRUE
         IN 1 + Components(E, V \ ConnectedFrom(E, {v}))

\* Deleting one edge {u, v} increases the number of components: the edge
\* is there once, and without it u and v are apart.
IsBridge(A, u, v) ==
    /\ u # v
    /\ Count(A[u], v) = 1
    /\ v \notin ConnectedFrom(AdjacencyPairs(A) \ {<<u, v>>, <<v, u>>}, {u})

\* Deleting the vertex x with its incident edges increases the number of
\* components.
IsArticulation(A, x) ==
    LET E == AdjacencyPairs(A) IN
    Components({e \in E : e[1] # x /\ e[2] # x}, DOMAIN A \ {x})
        > Components(E, DOMAIN A)

ReportedBridges == {{out.bridges[i][1], out.bridges[i][2]} : i \in 1..Len(out.bridges)}

IsBridgesCall == call.op = "bridges" /\ ~directed

\* C24: on an undirected graph detect_bridges_articulations reports the
\* edge {u, v} as a bridge exactly when deleting that single edge increases
\* the number of connected components, each bridge exactly once.
C24_Bridges ==
    IsBridgesCall =>
        /\ out.ret = 0
        /\ ReportedBridges =
               {{u, v} : <<u, v>> \in {e \in AdjacencyPairs(adj) : IsBridge(adj, e[1], e[2])}}
        /\ Cardinality(ReportedBridges) = Len(out.bridges)

\* Without parallel edges the bridges reported are the bridges.
BridgesWithoutParallelEdges ==
    (IsBridgesCall /\ \A u, v \in Vertices : Count(adj[u], v) <= 1) =>
        /\ out.ret = 0
        /\ ReportedBridges =
               {{u, v} : <<u, v>> \in {e \in AdjacencyPairs(adj) : IsBridge(adj, e[1], e[2])}}
        /\ Cardinality(ReportedBridges) = Len(out.bridges)

\* C25: on an undirected graph, connected or not, the vertices reported as
\* articulation points are exactly those whose deletion, with their
\* incident edges, increases the number of connected components.
C25_Articulations ==
    IsBridgesCall =>
        /\ out.ret = 0
        /\ {out.artics[i] : i \in 1..Len(out.artics)} =
               {x \in Vertices : IsArticulation(adj, x)}
        /\ Cardinality({out.artics[i] : i \in 1..Len(out.artics)}) = Len(out.artics)

\* A middle vertex of a path is reported although the graph has another
\* component.
C25_Witness ==
    /\ IsBridgesCall
    /\ Len(out.artics) >= 1
    /\ Components(AdjacencyPairs(adj), Vertices) >= 2
    /\ \E i \in 1..Len(out.artics) : IsArticulation(adj, out.artics[i])

\* The root of a DFS tree with two children is reported.
C25_WitnessRoot ==
    /\ IsBridgesCall
    /\ 0 \in {out.artics[i] : i \in 1..Len(out.artics)}

(* ---- hierholzer_eulerian_path ---- *)
IsHierholzerCall == call.op = "hierholzer" /\ ~directed /\ call.src < num_vertices

OddVertices(A) == {v \in DOMAIN A : Len(A[v]) % 2 # 0}

\* An Eulerian path or circuit starting at start exists: every edge lies in
\* the component of start, and either no vertex has odd degree or exactly
\* two have and start is one of them.
EulerianFrom(A, start) ==
    /\ \A v \in DOMAIN A : Len(A[v]) > 0 => v \in ReachFrom(A, {start})
    /\ \/ OddVertices(A) = {}
       \/ Cardinality(OddVertices(A)) = 2 /\ start \in OddVertices(A)

\* The number of edges between a and b: an adjacency entry on each side,
\* two entries in the same list for a self-loop.
Multiplicity(A, a, b) == IF a = b THEN Count(A[a], a) \div 2 ELSE Count(A[a], b)

\* The walk path uses every edge of A exactly once.
TraversesEveryEdgeOnce(A, path) ==
    /\ Len(path) = EdgeCount(A, FALSE) + 1
    /\ \A i \in 1..(Len(path) - 1) : Count(A[path[i]], path[i + 1]) > 0
    /\ \A a, b \in DOMAIN A :
           Cardinality({i \in 1..(Len(path) - 1) :
                            {path[i], path[i + 1]} = {a, b}}) = Multiplicity(A, a, b)

\* C26: on an undirected graph and a valid start hierholzer_eulerian_path
\* returns true exactly when an Eulerian path or circuit from start exists;
\* the sequence returned then traverses every edge exactly once (length =
\* edges + 1, consecutive vertices adjacent); it returns false when the
\* number of odd-degree vertices is neither 0 nor 2.
C26_EulerianPath ==
    IsHierholzerCall =>
        /\ out.ret <=> EulerianFrom(adj, call.src)
        /\ out.ret => (out.len = Len(out.path) /\ TraversesEveryEdgeOnce(adj, out.path))
        /\ (Cardinality(OddVertices(adj)) \notin {0, 2}) => ~out.ret

\* When no buffer is overrun and every edge lies in the component of the
\* vertex the search starts from, the path returned is Eulerian; a wrong
\* number of odd vertices gives false.
EulerianPathWhenConnected ==
    (IsHierholzerCall /\ ~out.overflow) =>
        /\ (Cardinality(OddVertices(adj)) \notin {0, 2}) <=> ~out.ret
        /\ (/\ out.ret
            /\ \A v \in Vertices : Len(adj[v]) > 0 => v \in ReachFrom(adj, {out.path[1]}))
               => TraversesEveryEdgeOnce(adj, out.path)

\* C27: with exactly two odd-degree vertices the path returned begins at one
\* of them, and at the caller's start when that is one of the two.
C27_StartsAtOddVertex ==
    (IsHierholzerCall /\ Cardinality(OddVertices(adj)) = 2 /\ out.ret) =>
        /\ out.path[1] \in OddVertices(adj)
        /\ (call.src \in OddVertices(adj)) => out.path[1] = call.src

\* With two odd vertices the path begins at the lower one when no buffer is
\* overrun.
StartsAtFirstOddVertex ==
    (IsHierholzerCall /\ Cardinality(OddVertices(adj)) = 2 /\ ~out.overflow) =>
        /\ out.ret
        /\ out.path[1] = hierholzer_first_odd(OddVertices(adj))

\* C30: on an undirected graph that passes the odd-degree check the stack
\* never holds more than num_vertices + 1 entries and the circuit buffer
\* never receives more than num_vertices * num_vertices + 1 entries; the
\* caller's adjacency lists are unchanged.
C30_HierholzerBuffers ==
    (IsHierholzerCall /\ Cardinality(OddVertices(adj)) \in {0, 2}) =>
        /\ out.max_stack <= num_vertices + 1
        /\ out.circuit_size <= num_vertices * num_vertices + 1

\* hierholzer_eulerian_path works on a copy: the graph is as it was.
C30_AdjacencyUnchanged ==
    [][call'.op = "hierholzer" => adj' = adj]_vars

\* On simple undirected graphs within the bounds no buffer is overrun.
HierholzerBuffersSimpleGraph ==
    (IsHierholzerCall /\ \A u, v \in Vertices : Count(adj[u], v) <= (IF u = v THEN 0 ELSE 1))
        => ~out.overflow

(* ---- add_edge, allocation failure ---- *)
\* C28: on an undirected graph, when add_edge(u, v) has put v into u's list
\* and the second realloc fails, the call returns an error and every
\* adjacency list is as before, in length and in entries.
C28_AddEdgeRollback ==
    [][(/\ call'.op = "add_edge"
        /\ call'.ret = ERR_REALLOC
        /\ call'.failed = 2)
           => (~directed /\ adj' = adj)]_vars

\* The second realloc failed for an edge whose source list was not empty,
\* and the graph is still symmetric.
C28_Witness ==
    /\ call.op = "add_edge"
    /\ call.ret = ERR_REALLOC
    /\ call.failed = 2
    /\ ~directed
    /\ Len(adj[call.src]) > 0
    /\ \A u, v \in Vertices : Count(adj[u], v) = Count(adj[v], u)

(* ---- dfs, stack ---- *)
\* C29: during dfs(start) on a graph built by add_edge, duplicates
\* permitted, the stack never holds more than num_vertices entries.
C29_DfsStackBound ==
    (call.op = "dfs" /\ call.src < num_vertices) => out.max_stack <= num_vertices

\* Without parallel edges the stack stays within num_vertices entries on
\* the graphs of these bounds.
DfsStackBoundSimpleGraph ==
    (/\ call.op = "dfs"
     /\ call.src < num_vertices
     /\ \A u, v \in Vertices : Count(adj[u], v) <= 1)
        => out.max_stack <= num_vertices

====
